---- MODULE Spec2Model ----
(***************************************************************************)
(* A model of the spreadsheet extraction engine of src/excel2json.py:      *)
(* template classification, metadata / image / question extraction, the    *)
(* schema mapper, the validator, the outlier handler and the batch driver, *)
(* and of the import of the documents into the store by src/json2db.py.    *)
(*                                                                         *)
(* Text is modelled as a sequence of atoms.  An atom is one character      *)
(* (" ", "\n", "a", "7", ...) or an indivisible piece of text that the     *)
(* code only ever treats as a whole ("15.03.2024", "Signature", "CEA").    *)
(***************************************************************************)
EXTENDS Integers, Sequences, FiniteSets, TLC

VARIABLES
    pc,                    \* where the run stands
    workbook,              \* the loaded workbook: its sheets, in order
    template_type,         \* identify_template_type's result
    metadata,              \* extract_metadata's result
    images,                \* extract_images' result
    questions,             \* extract_questions' result
    eq_data,               \* map_to_schema's result, the Document
    validation,            \* validate_extracted_data's result
    excel_files,           \* main: the input files, in listing order
    file_index,            \* main: the file the batch loop is at
    output_fs,             \* the files under the output directory
    outlier_fs,            \* the files under the outlier directory
    run_log,               \* what the current run of process_excel_file did
    results,               \* main: (success, is_outlier) of each file processed
    success_count, outlier_count, processed_count,
    json_calls,            \* json2db: the document directories imported, call after call
    call_index,            \* json2db: the call of process_json_file the import is at
    db,                    \* json2db: the committed rows of the relational store
    s3_bucket,             \* json2db: the objects uploaded to object storage
    frame,                 \* json2db: the locals of the running process_json_file
    import_log,            \* json2db: what the running process_json_file did
    import_results,        \* json2db: what each call of process_json_file returned
    uuid_counter,          \* json2db: the identifiers handed out so far
    faults                 \* json2db: the store operations that have failed so far

varsFile == <<workbook, template_type, metadata, images, questions, eq_data, validation>>
varsBatch == <<excel_files, file_index, output_fs, outlier_fs, run_log, results,
               success_count, outlier_count, processed_count>>
vars == <<pc, workbook, template_type, metadata, images, questions, eq_data, validation,
          excel_files, file_index, output_fs, outlier_fs, run_log, results,
          success_count, outlier_count, processed_count,
          json_calls, call_index, db, s3_bucket, frame, import_log, import_results,
          uuid_counter, faults>>
varsImport == <<json_calls, call_index, db, s3_bucket, frame, import_log, import_results,
                uuid_counter, faults>>

(***************************************************************************)
(* Bounds of the model.                                                    *)
(***************************************************************************)
MaxQuestions == 3
MaxLen == 4
MaxPayload == 3
MaxImages == 2
MaxCells == 3
MaxFiles == 2

(***************************************************************************)
(* Text.                                                                   *)
(***************************************************************************)
NL == "\n"
SP == " "
Whitespace == {SP, NL}
Digits == {"0", "1", "2", "3", "4", "5", "6", "7", "8", "9"}

StringsUpTo(A, n) == UNION {[1..k -> A] : k \in 0..n}

\* Python's option type: None is the empty tuple, a value x is <<x>>.
NoneV == <<>>
Some(x) == <<x>>

\* str.strip(): leading and trailing whitespace removed.
RECURSIVE LStrip(_)
LStrip(s) ==
    IF s = <<>> THEN <<>>
    ELSE IF Head(s) \in Whitespace THEN LStrip(Tail(s)) ELSE s

RECURSIVE RStrip(_)
RStrip(s) ==
    IF s = <<>> THEN <<>>
    ELSE IF s[Len(s)] \in Whitespace THEN RStrip(SubSeq(s, 1, Len(s) - 1)) ELSE s

Strip(s) == RStrip(LStrip(s))

\* str.split(sep): the pieces between separators, empty pieces kept.
RECURSIVE SplitFrom(_, _, _, _)
SplitFrom(s, sep, cur, acc) ==
    IF s = <<>> THEN Append(acc, cur)
    ELSE IF Head(s) = sep THEN SplitFrom(Tail(s), sep, <<>>, Append(acc, cur))
    ELSE SplitFrom(Tail(s), sep, Append(cur, Head(s)), acc)

SplitOn(s, sep) == SplitFrom(s, sep, <<>>, <<>>)

\* str.split('\n')
SplitLines(s) == SplitOn(s, NL)

\* sep.join(pieces)
RECURSIVE JoinWith(_, _)
JoinWith(pieces, sep) ==
    IF pieces = <<>> THEN <<>>
    ELSE IF Len(pieces) = 1 THEN pieces[1]
    ELSE pieces[1] \o <<sep>> \o JoinWith(Tail(pieces), sep)

\* '\n'.join(lines)
JoinLines(lines) == JoinWith(lines, NL)

\* "marker in text": marker occurs as a contiguous piece of text.
Contains(text, marker) ==
    \E i \in 1..(Len(text) - Len(marker) + 1) :
        SubSeq(text, i, i + Len(marker) - 1) = marker

\* str.isdigit()
IsDigit(s) == s # <<>> /\ \A i \in 1..Len(s) : s[i] \in Digits

\* str(n) for an int n
DigitOf(d) ==
    CASE d = 0 -> "0" [] d = 1 -> "1" [] d = 2 -> "2" [] d = 3 -> "3" [] d = 4 -> "4"
      [] d = 5 -> "5" [] d = 6 -> "6" [] d = 7 -> "7" [] d = 8 -> "8" [] d = 9 -> "9"

RECURSIVE NatToStr(_)
NatToStr(n) == IF n < 10 THEN <<DigitOf(n)>> ELSE Append(NatToStr(n \div 10), DigitOf(n % 10))

IntToStr(n) == IF n < 0 THEN <<"-">> \o NatToStr(0 - n) ELSE NatToStr(n)

(***************************************************************************)
(* Cell values as openpyxl hands them out: None, str, int, float, bool or  *)
(* a datetime.  A float is modelled by its integral part (its fraction is  *)
(* never zero), a datetime by its ISO text.                                *)
(***************************************************************************)
NoneCell == [t |-> "none", i |-> 0, s |-> <<>>]
StrCell(s) == [t |-> "str", i |-> 0, s |-> s]
IntCell(n) == [t |-> "int", i |-> n, s |-> <<>>]
FloatCell(n) == [t |-> "float", i |-> n, s |-> <<>>]
BoolCell(b) == [t |-> "bool", i |-> IF b THEN 1 ELSE 0, s |-> <<>>]
DateCell(iso) == [t |-> "date", i |-> 0, s |-> <<iso>>]

\* Python truthiness of a cell value ("if cell.value:")
Truthy(v) ==
    CASE v.t = "none" -> FALSE
      [] v.t = "str" -> v.s # <<>>
      [] v.t = "int" -> v.i # 0
      [] v.t = "bool" -> v.i # 0
      [] OTHER -> TRUE

\* str(cell.value)
StrOf(v) ==
    CASE v.t = "none" -> <<"N", "o", "n", "e">>
      [] v.t = "str" -> v.s
      [] v.t = "int" -> IntToStr(v.i)
      [] v.t = "float" -> IntToStr(v.i) \o <<".", "5">>
      [] v.t = "bool" -> IF v.i = 1 THEN <<"T", "r", "u", "e">> ELSE <<"F", "a", "l", "s", "e">>
      [] OTHER -> v.s \o <<SP, "00:00:00">>

\* hasattr(value, 'isoformat')
HasIsoformat(v) == v.t = "date"

\* value.isoformat()
Isoformat(v) == v.s

(***************************************************************************)
(* validate_extracted_data                                                 *)
(***************************************************************************)
ErrCustomerName == [rule |-> "customerName", index |-> 0]
ErrFileName == [rule |-> "fileName", index |-> 0]
ErrNo(i) == [rule |-> "no", index |-> i]

RECURSIVE QuestionErrors(_, _)
QuestionErrors(qs, i) ==
    IF i > Len(qs) THEN <<>>
    ELSE (IF qs[i].no = <<>> THEN <<ErrNo(i)>> ELSE <<>>)
             \o QuestionErrors(qs, i + 1)

\* a plausible slip: the optional engineerName is treated as required
ValidationErrorsOptionalRequired(doc) ==
    (IF doc.customerName = <<>> \/ doc.engineerName = NoneV THEN <<ErrCustomerName>> ELSE <<>>)
        \o (IF doc.fileName = <<>> THEN <<ErrFileName>> ELSE <<>>)
        \o QuestionErrors(doc.questions, 1)

ValidationErrors(doc) ==
    (IF doc.customerName = <<>> THEN <<ErrCustomerName>> ELSE <<>>)
        \o (IF doc.fileName = <<>> THEN <<ErrFileName>> ELSE <<>>)
        \o QuestionErrors(doc.questions, 1)

validate_extracted_data(doc) ==
    [is_valid |-> Len(ValidationErrors(doc)) = 0, errors |-> ValidationErrors(doc)]

(***************************************************************************)
(* Worksheets.  A sheet is its name, its cells (the cells that exist, each *)
(* with a value) and its anchored drawings.  As in openpyxl, max_row and   *)
(* max_column are computed from the cells that exist, and reading a cell   *)
(* through sheet.cell(row, column) creates it (empty) when it is missing.  *)
(***************************************************************************)
SetMax(S) == CHOOSE x \in S : \A y \in S : y <= x

Min(a, b) == IF a < b THEN a ELSE b

max_row(sheet) ==
    IF DOMAIN sheet.cells = {} THEN 1 ELSE SetMax({p[1] : p \in DOMAIN sheet.cells})

max_column(sheet) ==
    IF DOMAIN sheet.cells = {} THEN 1 ELSE SetMax({p[2] : p \in DOMAIN sheet.cells})

\* sheet.cell(row=r, column=c).value, for r >= 1 and c >= 1
cell(sheet, r, c) ==
    IF <<r, c>> \in DOMAIN sheet.cells THEN sheet.cells[<<r, c>>] ELSE NoneCell

\* the sheet after sheet.cell() has been called on every coordinate of ps
Touched(sheet, ps) ==
    [sheet EXCEPT !.cells =
        [p \in (DOMAIN sheet.cells) \cup ps |->
            IF p \in DOMAIN sheet.cells THEN sheet.cells[p] ELSE NoneCell]]

\* a sheet from the cells given as a set of <<row, column, value>>
MakeCells(entries) ==
    [p \in {<<e[1], e[2]>> : e \in entries} |->
        (CHOOSE e \in entries : e[1] = p[1] /\ e[2] = p[2])[3]]

Templates == {"CEA", "EQ", "starteam"}

(***************************************************************************)
(* extract_metadata                                                        *)
(***************************************************************************)
InitialMetadata ==
    [customerName |-> <<>>, engineerName |-> NoneV,
     customerPN |-> <<>>, factoryPN |-> <<>>, stgPN |-> <<>>,
     baseMaterial |-> NoneV, solderMask |-> NoneV,
     viaPluggingType |-> NoneV, panelSize |-> NoneV, status |-> NoneV,
     stgSignatureDate |-> NoneV, stgSignatures |-> <<>>,
     customerSignatureDate |-> NoneV, customerSignatures |-> <<>>,
     createdAt |-> NoneV]

\* [x for x in lines if keep(x)] with x.strip() taken of each kept line
RECURSIVE StripNonEmpty(_)
StripNonEmpty(lines) ==
    IF lines = <<>> THEN <<>>
    ELSE (IF Strip(Head(lines)) # <<>> THEN <<Strip(Head(lines))>> ELSE <<>>)
             \o StripNonEmpty(Tail(lines))

RECURSIVE StripAll(_)
StripAll(lines) ==
    IF lines = <<>> THEN <<>> ELSE <<Strip(Head(lines))>> \o StripAll(Tail(lines))

\* a plausible slip: the "if pn.strip()" filter left out
SplitPartNumbersUnfiltered(pn_value) == StripAll(SplitLines(pn_value))

\* [pn.strip() for pn in pn_value.split('\n') if pn.strip()]
SplitPartNumbers(pn_value) == StripNonEmpty(SplitLines(pn_value))

PartNumbers(v) == IF Truthy(v) THEN SplitPartNumbers(StrOf(v)) ELSE <<>>

OptionalText(v) == IF Truthy(v) THEN Some(StrOf(v)) ELSE NoneV

CommonCells ==
    {<<1, 3>>, <<1, 5>>, <<2, 3>>, <<2, 5>>, <<3, 3>>, <<3, 5>>, <<7, 3>>, <<7, 5>>}

CommonMetadata(sheet) ==
    [InitialMetadata EXCEPT
        !.customerName = IF Truthy(cell(sheet, 1, 3)) THEN StrOf(cell(sheet, 1, 3)) ELSE <<>>,
        !.engineerName = OptionalText(cell(sheet, 1, 5)),
        !.customerPN = PartNumbers(cell(sheet, 2, 3)),
        !.factoryPN = PartNumbers(cell(sheet, 2, 5)),
        !.stgPN = PartNumbers(cell(sheet, 3, 3)),
        !.createdAt = IF Truthy(cell(sheet, 3, 5)) /\ HasIsoformat(cell(sheet, 3, 5))
                      THEN Some(Isoformat(cell(sheet, 3, 5))) ELSE NoneV,
        !.baseMaterial = OptionalText(cell(sheet, 7, 3)),
        !.solderMask = OptionalText(cell(sheet, 7, 5))]

\* value and "word" in str(value)
HasWord(v, word) == Truthy(v) /\ Contains(StrOf(v), <<word>>)

\* the date one row below a label, kept only when the cell holds a date value
DateBelow(sheet, row, meta) ==
    IF Truthy(cell(sheet, row + 1, 1)) /\ HasIsoformat(cell(sheet, row + 1, 1))
    THEN [meta EXCEPT !.customerSignatureDate = Some(Isoformat(cell(sheet, row + 1, 1)))]
    ELSE meta

SignatureBelow(sheet, row, meta) ==
    IF Truthy(cell(sheet, row + 1, 4))
    THEN [meta EXCEPT !.customerSignatures = <<StrOf(cell(sheet, row + 1, 4))>>]
    ELSE meta

\* CEA: one iteration of "for row in range(15, min(25, sheet.max_row + 1))"
CeaRow(sheet, row, meta) ==
    LET m1 == IF HasWord(cell(sheet, row, 1), "Date") THEN DateBelow(sheet, row, meta) ELSE meta
    IN IF HasWord(cell(sheet, row, 4), "Signature") THEN SignatureBelow(sheet, row, m1) ELSE m1

\* EQ: one iteration of "for row in range(sheet.max_row - 10, sheet.max_row)"
EqRow(sheet, row, meta) ==
    IF HasWord(cell(sheet, row, 1), "Date") \/ HasWord(cell(sheet, row, 1), "Signature")
    THEN SignatureBelow(sheet, row, DateBelow(sheet, row, meta))
    ELSE meta

\* datetime.strptime(date_str, "%d.%m.%Y"): the texts that parse, and their isoformat()
DateTexts == {"15.03.2024", "01.12.2023"}
ParsesAsDate(date_str) == Len(date_str) = 1 /\ date_str[1] \in DateTexts
ParsedIso(date_str) ==
    IF date_str[1] = "15.03.2024" THEN "2024-03-15T00:00:00" ELSE "2023-12-01T00:00:00"

\* a plausible slip: the first line is not trimmed before it is parsed
SignaturePayloadUntrimmed(text) ==
    LET lines == SplitLines(text)
    IN IF Len(lines) >= 2 /\ ParsesAsDate(lines[1])
       THEN [date |-> Some(ParsedIso(lines[1])),
             signatures |-> <<Strip(JoinLines(Tail(lines)))>>]
       ELSE [date |-> NoneV, signatures |-> <<text>>]

\* lines 179-195 and 198-214: what one payload cell sets (date: NoneV = left as it was)
SignaturePayload(text) ==
    LET lines == SplitLines(text)
    IN IF Len(lines) >= 2 /\ ParsesAsDate(Strip(lines[1]))
       THEN [date |-> Some(ParsedIso(Strip(lines[1]))),
             signatures |-> <<Strip(JoinLines(Tail(lines)))>>]
       ELSE [date |-> NoneV, signatures |-> <<text>>]

\* starteam: one iteration of "for row in range(sheet.max_row - 10, sheet.max_row)"
StarteamRow(sheet, row, meta) ==
    IF HasWord(cell(sheet, row, 4), "Signature")
    THEN LET stg == SignaturePayload(StrOf(cell(sheet, row + 1, 4)))
             cus == SignaturePayload(StrOf(cell(sheet, row + 1, 5)))
             m1 == IF Truthy(cell(sheet, row + 1, 4))
                   THEN [meta EXCEPT
                            !.stgSignatureDate = IF stg.date # NoneV THEN stg.date ELSE @,
                            !.stgSignatures = stg.signatures]
                   ELSE meta
         IN IF Truthy(cell(sheet, row + 1, 5))
            THEN [m1 EXCEPT
                     !.customerSignatureDate = IF cus.date # NoneV THEN cus.date ELSE @,
                     !.customerSignatures = cus.signatures]
            ELSE m1
    ELSE meta

TemplateRow(ttype, sheet, row, meta) ==
    CASE ttype = "CEA" -> CeaRow(sheet, row, meta)
      [] ttype = "EQ" -> EqRow(sheet, row, meta)
      [] OTHER -> StarteamRow(sheet, row, meta)

\* the rows lo..hi visited in ascending order
RECURSIVE ScanRows(_, _, _, _, _)
ScanRows(ttype, sheet, row, hi, meta) ==
    IF row > hi THEN meta
    ELSE ScanRows(ttype, sheet, row + 1, hi,
                  TemplateRow(ttype, sheet, row, meta))

\* the sheet as the scan finds it: the fixed cells have been read (and so exist)
SheetAtScan(sheet, ttype) ==
    Touched(sheet, CommonCells \cup
                   (IF ttype = "starteam" THEN {<<8, 3>>, <<8, 5>>} ELSE {}))

FirstScanRow(sheet, ttype) ==
    IF ttype = "CEA" THEN 15 ELSE max_row(SheetAtScan(sheet, ttype)) - 10

LastScanRow(sheet, ttype) ==
    IF ttype = "CEA"
    THEN Min(25, max_row(SheetAtScan(sheet, ttype)) + 1) - 1
    ELSE max_row(SheetAtScan(sheet, ttype)) - 1

\* sheet.cell(row=row, ...) raises ValueError for a row below 1
MetadataRaises(sheet, ttype) ==
    /\ FirstScanRow(sheet, ttype) <= LastScanRow(sheet, ttype)
    /\ FirstScanRow(sheet, ttype) < 1

extract_metadata(wb, ttype) ==
    LET sheet == wb[1]
        common == CommonMetadata(sheet)
        specific == IF ttype = "starteam"
                    THEN [common EXCEPT !.viaPluggingType = OptionalText(cell(sheet, 8, 3)),
                                        !.panelSize = OptionalText(cell(sheet, 8, 5))]
                    ELSE common
    IN IF MetadataRaises(sheet, ttype)
       THEN [raised |-> TRUE, metadata |-> InitialMetadata]
       ELSE [raised |-> FALSE,
             metadata |-> ScanRows(ttype, sheet,
                                   FirstScanRow(sheet, ttype),
                                   LastScanRow(sheet, ttype), specific)]

(***************************************************************************)
(* identify_template_type                                                  *)
(***************************************************************************)
\* [str(v) for the truthy cells of row r, columns 1..last_col], joined by spaces
RECURSIVE RowData(_, _, _, _)
RowData(sheet, r, c, last_col) ==
    IF c > last_col THEN <<>>
    ELSE (IF Truthy(cell(sheet, r, c)) THEN <<StrOf(cell(sheet, r, c))>> ELSE <<>>)
             \o RowData(sheet, r, c + 1, last_col)

RECURSIVE SampleData(_, _, _, _)
SampleData(sheet, r, last_row, last_col) ==
    IF r > last_row THEN <<>>
    ELSE <<JoinWith(RowData(sheet, r, 1, last_col), SP)>>
             \o SampleData(sheet, r + 1, last_row, last_col)

\* range(1, min(20, sheet.max_row + 1)) x range(1, min(15, sheet.max_column + 1))
SampleText(sheet) ==
    JoinWith(SampleData(sheet, 1, Min(20, max_row(sheet) + 1) - 1,
                        Min(15, max_column(sheet) + 1) - 1), SP)

MarkerCEA == <<"CEA">>
MarkerApproval == <<"Customer", SP, "Engineering", SP, "Approval">>
MarkerQuestionnaire == <<"Engineering", SP, "Questionnaire">>
MarkerEQ == <<"EQ">>
MarkerProposal == <<"STG", SP, "Proposal">>
MarkerDecision == <<"Customer", SP, "Decision">>

\* a plausible slip: "more than 10 columns" for the extended variant
StructuralTypeStrict(sheet_name, columns) ==
    IF sheet_name = "CEA" /\ columns <= 6 THEN "CEA"
    ELSE IF sheet_name = "EQ Template"
         THEN (IF columns > 10 THEN "starteam" ELSE "EQ")
         ELSE "None"

\* lines 51-62: the structural fallback
StructuralType(sheet_name, columns) ==
    IF sheet_name = "CEA" /\ columns <= 6 THEN "CEA"
    ELSE IF sheet_name = "EQ Template"
         THEN (IF columns >= 10 THEN "starteam" ELSE "EQ")
         ELSE "None"

\* a plausible slip: the questionnaire rule tried before the approval-form rule
identify_template_type_questionnaire_first(wb) ==
    LET sheet == wb[1]
        sample_text == SampleText(sheet)
    IN IF Contains(sample_text, MarkerQuestionnaire) \/ Contains(sample_text, MarkerEQ)
       THEN (IF Contains(sample_text, MarkerProposal) /\ Contains(sample_text, MarkerDecision)
             THEN "starteam" ELSE "EQ")
       ELSE IF /\ Contains(sample_text, MarkerCEA) /\ Contains(sample_text, MarkerApproval)
               /\ sheet.name = "CEA"
            THEN "CEA"
            ELSE StructuralType(sheet.name, max_column(sheet))

identify_template_type(wb) ==
    LET sheet == wb[1]
        sample_text == SampleText(sheet)
    IN IF /\ Contains(sample_text, MarkerCEA) /\ Contains(sample_text, MarkerApproval)
          /\ sheet.name = "CEA"
       THEN "CEA"
       ELSE IF Contains(sample_text, MarkerQuestionnaire) \/ Contains(sample_text, MarkerEQ)
            THEN (IF Contains(sample_text, MarkerProposal) /\ Contains(sample_text, MarkerDecision)
                  THEN "starteam" ELSE "EQ")
            ELSE StructuralType(sheet.name, max_column(sheet))

(***************************************************************************)
(* extract_images.  A drawing is its anchor (zero-based column and row of  *)
(* its top-left cell, when it has one) and whether its bytes decode and    *)
(* save as PNG.  The result is the cell-to-images mapping, the files      *)
(* saved under images/ and the counter.                                    *)
(***************************************************************************)
Letters ==
    <<"A", "B", "C", "D", "E", "F", "G", "H", "I", "J", "K", "L", "M",
      "N", "O", "P", "Q", "R", "S", "T", "U", "V", "W", "X", "Y", "Z">>

\* chr(ord('A') + k), for the columns the model uses
ColLetter(k) == Letters[k + 1]

\* f"{col_letter}{row}"
Coord(col_letter, row) == <<col_letter>> \o NatToStr(row)

\* f"image_{image_counter}.png"
ImageFilename(n) == <<"image_">> \o NatToStr(n) \o <<".png">>

NoImages == [cell_to_images |-> <<>>, saved |-> {}, image_counter |-> 1]

\* cell_to_images.get(cell_coord, [])
ImagesAt(cell_to_images, cell_coord) ==
    IF cell_coord \in DOMAIN cell_to_images THEN cell_to_images[cell_coord] ELSE <<>>

\* the mapping with image_filename appended to cell_coord's list
Recorded(cell_to_images, cell_coord, image_filename) ==
    [k \in (DOMAIN cell_to_images) \cup {cell_coord} |->
        IF k = cell_coord
        THEN Append(ImagesAt(cell_to_images, cell_coord), image_filename)
        ELSE cell_to_images[k]]

\* a plausible slip: the counter advanced only when the drawing was saved
ExtractOneCountsSaved(image, acc) ==
    IF ~image.anchored THEN acc
    ELSE IF image.ok
         THEN [cell_to_images |->
                   Recorded(acc.cell_to_images,
                            Coord(ColLetter(image.col), image.row + 1),
                            ImageFilename(acc.image_counter)),
               saved |-> acc.saved \cup {ImageFilename(acc.image_counter)},
               image_counter |-> acc.image_counter + 1]
         ELSE acc

\* the body of "for image in sheet._images"
ExtractOne(image, acc) ==
    IF ~image.anchored THEN acc
    ELSE IF image.ok
         THEN [cell_to_images |->
                   Recorded(acc.cell_to_images,
                            Coord(ColLetter(image.col), image.row + 1),
                            ImageFilename(acc.image_counter)),
               saved |-> acc.saved \cup {ImageFilename(acc.image_counter)},
               image_counter |-> acc.image_counter + 1]
         ELSE [acc EXCEPT !.image_counter = @ + 1]

RECURSIVE ExtractSheetImages(_, _)
ExtractSheetImages(imgs, acc) ==
    IF imgs = <<>> THEN acc
    ELSE ExtractSheetImages(Tail(imgs), ExtractOne(Head(imgs), acc))

\* a plausible slip: the counter started again at 1 for every sheet
RECURSIVE ExtractFromSheetsCounterPerSheet(_, _)
ExtractFromSheetsCounterPerSheet(sheets, acc) ==
    IF sheets = <<>> THEN acc
    ELSE ExtractFromSheetsCounterPerSheet(
             Tail(sheets),
             ExtractSheetImages(Head(sheets).images, [acc EXCEPT !.image_counter = 1]))

\* "for sheet_name in wb.sheetnames"
RECURSIVE ExtractFromSheets(_, _)
ExtractFromSheets(sheets, acc) ==
    IF sheets = <<>> THEN acc
    ELSE ExtractFromSheets(Tail(sheets), ExtractSheetImages(Head(sheets).images, acc))

extract_images(wb) == ExtractFromSheets(wb, NoImages)

(***************************************************************************)
(* extract_questions                                                       *)
(***************************************************************************)
\* a plausible slip: the zero-based column letter taken of a one-based column
get_cell_value_with_images_shifted(sheet, row, col, cell_to_images) ==
    [text |-> IF cell(sheet, row, col).t = "none" THEN <<>> ELSE StrOf(cell(sheet, row, col)),
     images |-> ImagesAt(cell_to_images, Coord(ColLetter(col), row))]

\* get_cell_value_with_images: the images recorded exactly at (row, col)
get_cell_value_with_images(sheet, row, col, cell_to_images) ==
    [text |-> IF cell(sheet, row, col).t = "none" THEN <<>> ELSE StrOf(cell(sheet, row, col)),
     images |-> ImagesAt(cell_to_images, Coord(ColLetter(col - 1), row))]

StartRow(ttype) == IF ttype = "starteam" THEN 10 ELSE 9

NoCol == 1
DescCol == 2
SuggCol == 3
\* a plausible slip: the extended variant's response read from column 4 as well
RespColSameForAll(ttype) == 4
RespCol(ttype) == IF ttype = "starteam" THEN 5 ELSE 4

\* no_value is not None and (isinstance(no_value, int) or
\*     (isinstance(no_value, str) and no_value.isdigit())); a bool is an int
IsQuestionRow(no_value) ==
    \/ no_value.t \in {"int", "bool"}
    \/ no_value.t = "str" /\ IsDigit(no_value.s)

\* "if text and text.strip(): field = text.strip()"
StrippedOrNone(text) == IF Strip(text) # <<>> THEN Some(Strip(text)) ELSE NoneV

TopDate(sheet) ==
    IF Truthy(cell(sheet, 3, 5)) /\ HasIsoformat(cell(sheet, 3, 5))
    THEN Some(Isoformat(cell(sheet, 3, 5))) ELSE NoneV

\* a plausible slip: the description cell's images attached to the suggestion as well
QuestionOfRowSharedImages(sheet, ttype, row, cell_to_images) ==
    LET desc == get_cell_value_with_images(sheet, row, DescCol, cell_to_images)
        sugg == get_cell_value_with_images(sheet, row, SuggCol, cell_to_images)
        resp == get_cell_value_with_images(sheet, row, RespCol(ttype), cell_to_images)
    IN [no |-> StrOf(cell(sheet, row, NoCol)),
        row |-> row,
        description |-> StrippedOrNone(desc.text),
        suggestion |-> StrippedOrNone(sugg.text),
        customerResponse |-> StrippedOrNone(resp.text),
        descriptionImages |-> desc.images,
        suggestionImages |-> desc.images \o sugg.images,
        customerResponseImages |-> resp.images,
        createdAt |-> TopDate(sheet)]

QuestionOfRow(sheet, ttype, row, cell_to_images) ==
    LET desc == get_cell_value_with_images(sheet, row, DescCol, cell_to_images)
        sugg == get_cell_value_with_images(sheet, row, SuggCol, cell_to_images)
        resp == get_cell_value_with_images(sheet, row, RespCol(ttype), cell_to_images)
    IN [no |-> StrOf(cell(sheet, row, NoCol)),
        row |-> row,
        description |-> StrippedOrNone(desc.text),
        suggestion |-> StrippedOrNone(sugg.text),
        customerResponse |-> StrippedOrNone(resp.text),
        descriptionImages |-> desc.images,
        suggestionImages |-> sugg.images,
        customerResponseImages |-> resp.images,
        createdAt |-> TopDate(sheet)]

\* a plausible slip: the scan ended at the first row that is no question row
RECURSIVE ScanQuestionsUntilBlank(_, _, _, _)
ScanQuestionsUntilBlank(sheet, ttype, current_row, cell_to_images) ==
    IF current_row > max_row(sheet) \/ ~IsQuestionRow(cell(sheet, current_row, NoCol))
    THEN <<>>
    ELSE <<QuestionOfRow(sheet, ttype, current_row, cell_to_images)>>
             \o ScanQuestionsUntilBlank(sheet, ttype, current_row + 1, cell_to_images)

\* "while current_row <= sheet.max_row"
RECURSIVE ScanQuestions(_, _, _, _)
ScanQuestions(sheet, ttype, current_row, cell_to_images) ==
    IF current_row > max_row(sheet) THEN <<>>
    ELSE (IF IsQuestionRow(cell(sheet, current_row, NoCol))
          THEN <<QuestionOfRow(sheet, ttype, current_row, cell_to_images)>>
          ELSE <<>>)
             \o ScanQuestions(sheet, ttype, current_row + 1, cell_to_images)

\* a plausible slip: the scan begun at the start row itself
extract_questions_from_start_row(wb, ttype, cell_to_images) ==
    ScanQuestions(wb[1], ttype, StartRow(ttype), cell_to_images)

extract_questions(wb, ttype, cell_to_images) ==
    ScanQuestions(wb[1], ttype, StartRow(ttype) + 1, cell_to_images)

(***************************************************************************)
(* map_to_schema.  The generated identifiers and storage keys are fresh    *)
(* values no claim reads; they are left out.  Now stands for               *)
(* datetime.now().isoformat().                                             *)
(***************************************************************************)
Now == <<"now">>

\* a plausible slip: the top date dropped, the current time always taken
OrNowAlways(created_at) == Now

OrNow(created_at) == IF created_at # NoneV /\ created_at[1] # <<>> THEN created_at[1] ELSE Now

\* a plausible slip: the number read under a key the questions do not have
RECURSIVE MapQuestionsWrongKey(_)
MapQuestionsWrongKey(qs) ==
    IF qs = <<>> THEN <<>>
    ELSE <<[no |-> <<>>,
            createdAt |-> OrNow(Head(qs).createdAt),
            description |-> Head(qs).description,
            suggestion |-> Head(qs).suggestion,
            customerResponse |-> Head(qs).customerResponse,
            descriptionImages |-> Head(qs).descriptionImages,
            suggestionImages |-> Head(qs).suggestionImages,
            customerResponseImages |-> Head(qs).customerResponseImages]>>
         \o MapQuestionsWrongKey(Tail(qs))

RECURSIVE MapQuestions(_)
MapQuestions(qs) ==
    IF qs = <<>> THEN <<>>
    ELSE <<[no |-> Head(qs).no,
            createdAt |-> OrNow(Head(qs).createdAt),
            description |-> Head(qs).description,
            suggestion |-> Head(qs).suggestion,
            customerResponse |-> Head(qs).customerResponse,
            descriptionImages |-> Head(qs).descriptionImages,
            suggestionImages |-> Head(qs).suggestionImages,
            customerResponseImages |-> Head(qs).customerResponseImages]>>
         \o MapQuestions(Tail(qs))

map_to_schema(meta, qs, file_name) ==
    [createdAt |-> OrNow(meta.createdAt),
     customerName |-> meta.customerName,
     engineerName |-> meta.engineerName,
     customerPN |-> meta.customerPN,
     factoryPN |-> meta.factoryPN,
     stgPN |-> meta.stgPN,
     baseMaterial |-> meta.baseMaterial,
     solderMask |-> meta.solderMask,
     viaPluggingType |-> meta.viaPluggingType,
     panelSize |-> meta.panelSize,
     status |-> "Closed",
     stgSignatureDate |-> meta.stgSignatureDate,
     stgSignatures |-> meta.stgSignatures,
     customerSignatureDate |-> meta.customerSignatureDate,
     customerSignatures |-> meta.customerSignatures,
     fileName |-> file_name,
     originalFile |-> [name |-> file_name, uploadUrl |-> file_name],
     questions |-> MapQuestions(qs)]

(***************************************************************************)
(* handle_outlier_file, process_excel_file and main.                       *)
(*                                                                         *)
(* An input file is its name (text), its bytes, whether load_workbook can  *)
(* read it, and the workbook it holds.  A directory maps paths (text) to   *)
(* what is stored there.  run_log lists, in order, what the current run of *)
(* process_excel_file did.                                                 *)
(***************************************************************************)
\* a plausible slip: only the questionnaire templates are taken as recognised
RoutesToOutlierUnlessQuestionnaire(ttype) == ttype \notin {"EQ", "starteam"}

\* line 515: "if not template_type"
RoutesToOutlier(ttype) == ttype = "None"

\* a plausible slip: the validation verdict is printed but not acted on
ValidationStopsNever(verdict) == FALSE

\* line 546: "if not is_valid"
ValidationStops(verdict) == ~verdict.is_valid

\* os.path.basename(file_path).split('.')[0]
OutputDirName(file_name) == SplitOn(file_name, ".")[1]

\* os.path.splitext(file_name)[0], for a name with an extension
RECURSIVE DropAfterLastDot(_)
DropAfterLastDot(s) ==
    IF s = <<>> THEN <<>>
    ELSE IF s[Len(s)] = "." THEN SubSeq(s, 1, Len(s) - 1)
    ELSE DropAfterLastDot(SubSeq(s, 1, Len(s) - 1))

Splitext(file_name) == IF "." \in {file_name[i] : i \in 1..Len(file_name)}
                       THEN DropAfterLastDot(file_name) ELSE file_name

Dir == [kind |-> "dir", bytes |-> "-"]
Stored(kind, bytes) == [kind |-> kind, bytes |-> bytes]

\* the directory fs with content stored at each path of paths
WithFiles(fs, paths, content) ==
    [p \in (DOMAIN fs) \cup paths |-> IF p \in paths THEN content ELSE fs[p]]

\* the directory fs with the directories of paths made (exist_ok=True)
WithDirs(fs, paths) ==
    [p \in (DOMAIN fs) \cup paths |-> IF p \in DOMAIN fs THEN fs[p] ELSE Dir]

EmptyFs == <<>>

(***************************************************************************)
(* The idle parts of a specification that exercises one function only.     *)
(***************************************************************************)
\* the store before any import: no row, no object, no call
EmptyDb == [EQ |-> <<>>, Question |-> <<>>, File |-> <<>>, Relation |-> <<>>]

IdleImport ==
    /\ json_calls = <<>> /\ call_index = 0
    /\ db = EmptyDb /\ s3_bucket = <<>>
    /\ frame = <<>> /\ import_log = <<>> /\ import_results = <<>>
    /\ uuid_counter = 0 /\ faults = 0

IdleBatch ==
    /\ excel_files = <<>> /\ file_index = 0
    /\ output_fs = EmptyFs /\ outlier_fs = EmptyFs /\ run_log = <<>> /\ results = <<>>
    /\ success_count = 0 /\ outlier_count = 0 /\ processed_count = 0

Sheet(name, entries, drawings) == [name |-> name, cells |-> MakeCells(entries), images |-> drawings]

(***************************************************************************)
(* SpecValidate: validate_extracted_data applied to the Documents below.   *)
(***************************************************************************)
SomeName == <<"a", ".", "xlsx">>
SomeDate == <<"2024-03-15T00:00:00">>

SchemaQuestion(no) ==
    [no |-> no, createdAt |-> Now, description |-> NoneV, suggestion |-> NoneV,
     customerResponse |-> NoneV, descriptionImages |-> <<>>, suggestionImages |-> <<>>,
     customerResponseImages |-> <<>>]

QuestionInputs ==
    UNION {[1..k -> {SchemaQuestion(<<>>), SchemaQuestion(<<"1">>)}] : k \in 0..MaxQuestions}

MetadataInputs ==
    {[InitialMetadata EXCEPT
         !.customerName = cn, !.engineerName = en, !.baseMaterial = bm, !.solderMask = bm,
         !.stgSignatures = sig, !.customerSignatures = sig,
         !.stgSignatureDate = d, !.customerSignatureDate = d] :
        cn \in {<<>>, <<"A", "c", "m", "e">>},
        en \in {NoneV, Some(<<"B", "o", "b">>)},
        bm \in {NoneV, Some(<<"F", "R", "4">>)},
        sig \in {<<>>, <<<<"J", "D">>>>},
        d \in {NoneV, Some(SomeDate)}}

DocumentInputs ==
    {[map_to_schema(m, <<>>, fn) EXCEPT !.questions = qs] :
        m \in MetadataInputs, fn \in {<<>>, SomeName}, qs \in QuestionInputs}

InitValidate ==
    /\ pc = "call"
    /\ eq_data \in DocumentInputs
    /\ validation = NoneV
    /\ workbook = <<>> /\ template_type = "unset" /\ metadata = NoneV
    /\ images = NoneV /\ questions = NoneV
    /\ IdleBatch
    /\ IdleImport

Validate ==
    /\ pc = "call"
    /\ validation' = Some(validate_extracted_data(eq_data))
    /\ pc' = "returned"
    /\ UNCHANGED <<workbook, template_type, metadata, images, questions, eq_data>>
    /\ UNCHANGED varsBatch
    /\ UNCHANGED varsImport

NextValidate == Validate

SpecValidate == InitValidate /\ [][NextValidate]_vars

(***************************************************************************)
(* SpecMeta: extract_metadata applied to the sheets below: a part-number   *)
(* cell holding any short text, or a signature block in the last rows.     *)
(***************************************************************************)
PartNumberTexts == StringsUpTo({"a", "b", SP, NL}, MaxLen)

PartNumberCells == {<<2, 3>>, <<2, 5>>, <<3, 3>>}

\* the sheet has 12 rows; one part-number cell holds the text
PartNumberSheets ==
    {<<Sheet("EQ Template",
             {<<12, 6, NoneCell>>, <<1, 3, StrCell(<<"A", "c", "m", "e">>)>>,
              <<p[1], p[2], StrCell(text)>>}, <<>>)>> :
        p \in PartNumberCells, text \in PartNumberTexts}

PayloadTexts == StringsUpTo({"15.03.2024", "x", SP, NL}, MaxPayload)
OtherPayloads == {NoneCell, StrCell(<<"15.03.2024", NL, "x">>), StrCell(<<"x", "x">>)}
EarlierPayload == StrCell(<<"01.12.2023", NL, "E", "v", "e">>)

\* rows label-2 and label-1: an earlier Signature label with its own payloads
EarlierBlock(label, present) ==
    IF present
    THEN {<<label - 2, 4, StrCell(<<"Signature">>)>>,
          <<label - 1, 4, EarlierPayload>>, <<label - 1, 5, EarlierPayload>>}
    ELSE {}

\* the sheet has 14 rows; the Signature label stands in column 4 of row label
SignatureSheets ==
    {<<Sheet("EQ Template",
             {<<14, 6, NoneCell>>, <<1, 3, StrCell(<<"A", "c", "m", "e">>)>>,
              <<label, 4, StrCell(<<"STG", SP, "Signature">>)>>,
              <<label + 1, 4, IF free = 4 THEN StrCell(text) ELSE other>>,
              <<label + 1, 5, IF free = 5 THEN StrCell(text) ELSE other>>}
             \cup EarlierBlock(label, earlier), <<>>)>> :
        label \in {3, 11, 13}, free \in {4, 5}, text \in PayloadTexts,
        other \in OtherPayloads, earlier \in BOOLEAN}

InitMeta ==
    /\ pc = "call"
    /\ \/ workbook \in PartNumberSheets /\ template_type \in Templates
       \/ workbook \in SignatureSheets /\ template_type = "starteam"
    /\ metadata = NoneV
    /\ images = NoneV /\ questions = NoneV /\ eq_data = NoneV /\ validation = NoneV
    /\ IdleBatch
    /\ IdleImport

ExtractMetadata ==
    /\ pc = "call"
    /\ metadata' = Some(extract_metadata(workbook, template_type))
    /\ pc' = "returned"
    /\ UNCHANGED <<workbook, template_type, images, questions, eq_data, validation>>
    /\ UNCHANGED varsBatch
    /\ UNCHANGED varsImport

NextMeta == ExtractMetadata

SpecMeta == InitMeta /\ [][NextMeta]_vars

(***************************************************************************)
(* Properties of validate_extracted_data.                                  *)
(***************************************************************************)
ViolatedRules(doc) ==
    (IF doc.customerName = <<>> THEN {ErrCustomerName} ELSE {})
        \cup (IF doc.fileName = <<>> THEN {ErrFileName} ELSE {})
        \cup {ErrNo(i) : i \in {k \in 1..Len(doc.questions) : doc.questions[k].no = <<>>}}

RuleRank(e) ==
    CASE e.rule = "customerName" -> 0 [] e.rule = "fileName" -> 1 [] OTHER -> 1 + e.index

\* C2: validation fails iff customerName is empty, or fileName is empty, or some
\* question's no is empty, whatever the optional fields hold; the error list has
\* exactly one entry per violated rule, in the order customerName, fileName, then
\* the questions by position.
C2_ValidationRule ==
    validation # NoneV =>
        LET r == validation[1]
        IN /\ r.is_valid <=> ViolatedRules(eq_data) = {}
           /\ {r.errors[k] : k \in 1..Len(r.errors)} = ViolatedRules(eq_data)
           /\ Len(r.errors) = Cardinality(ViolatedRules(eq_data))
           /\ \A j, k \in 1..Len(r.errors) :
                  j < k => RuleRank(r.errors[j]) < RuleRank(r.errors[k])

\* a Document without optional fields that passes, and never one that fails on three rules
C2_Witness ==
    /\ pc = "returned" /\ validation # NoneV
    /\ validation[1].errors = <<ErrCustomerName, ErrFileName, ErrNo(2)>>
    /\ eq_data.engineerName # NoneV
    /\ Len(eq_data.questions) = 3

(***************************************************************************)
(* Properties of extract_metadata.                                         *)
(***************************************************************************)
MetadataReturned == metadata # NoneV /\ ~metadata[1].raised

\* the index of the k-th non-blank line of lines
KthNonBlank(lines, k) ==
    CHOOSE i \in 1..Len(lines) :
        /\ Strip(lines[i]) # <<>>
        /\ Cardinality({j \in 1..i : Strip(lines[j]) # <<>>}) = k

PartNumberListOk(v, list) ==
    LET lines == SplitLines(StrOf(v))
    IN /\ Len(list) = Cardinality({i \in 1..Len(lines) : Strip(lines[i]) # <<>>})
       /\ \A k \in 1..Len(list) :
              /\ list[k] # <<>>
              /\ list[k] = Strip(lines[KthNonBlank(lines, k)])
              /\ list[k][1] \notin Whitespace /\ list[k][Len(list[k])] \notin Whitespace
       /\ SplitPartNumbers(JoinLines(list)) = list

\* C6: each part-number list holds the lines of its cell in their original order,
\* each trimmed, none empty, and splitting the newline-joined list gives the list back.
C6_PartNumberLists ==
    MetadataReturned =>
        LET sheet == workbook[1]
            m == metadata[1].metadata
        IN /\ Truthy(cell(sheet, 2, 3)) => PartNumberListOk(cell(sheet, 2, 3), m.customerPN)
           /\ Truthy(cell(sheet, 2, 5)) => PartNumberListOk(cell(sheet, 2, 5), m.factoryPN)
           /\ Truthy(cell(sheet, 3, 3)) => PartNumberListOk(cell(sheet, 3, 3), m.stgPN)

\* a cell of three lines, one of them blank, split into two part numbers
C6_Witness ==
    /\ pc = "returned" /\ MetadataReturned
    /\ cell(workbook[1], 2, 5) = StrCell(<<"a", NL, NL, "b">>)
    /\ metadata[1].metadata.factoryPN = <<<<"a">>, <<"b">>>>

\* the rows of the scan whose column 4 holds the label and whose cell below, in
\* column col, holds a payload
PayloadRows(sheet, col) ==
    {r \in FirstScanRow(sheet, "starteam")..LastScanRow(sheet, "starteam") :
        HasWord(cell(sheet, r, 4), "Signature") /\ Truthy(cell(sheet, r + 1, col))}

PayloadLines(sheet, r, col) == SplitLines(StrOf(cell(sheet, r + 1, col)))

PayloadHasDate(sheet, r, col) ==
    /\ Len(PayloadLines(sheet, r, col)) >= 2
    /\ ParsesAsDate(Strip(PayloadLines(sheet, r, col)[1]))

PayloadDate(sheet, r, col) == Some(ParsedIso(Strip(PayloadLines(sheet, r, col)[1])))

\* C7 as stated: the remaining lines joined (untrimmed), the date unset when the first
\* line does not parse.
SignatureAsStated(sheet, col, date, signatures) ==
    PayloadRows(sheet, col) # {} =>
        LET r == SetMax(PayloadRows(sheet, col))
        IN IF PayloadHasDate(sheet, r, col)
           THEN /\ date = PayloadDate(sheet, r, col)
                /\ signatures = <<JoinLines(Tail(PayloadLines(sheet, r, col)))>>
           ELSE /\ date = NoneV
                /\ signatures = <<StrOf(cell(sheet, r + 1, col))>>

C7_AsStated ==
    (MetadataReturned /\ template_type = "starteam") =>
        LET m == metadata[1].metadata
        IN /\ SignatureAsStated(workbook[1], 4, m.stgSignatureDate, m.stgSignatures)
           /\ SignatureAsStated(workbook[1], 5, m.customerSignatureDate, m.customerSignatures)

SignatureAmended(sheet, col, date, signatures) ==
    LET rows == PayloadRows(sheet, col)
        dated == {r \in rows : PayloadHasDate(sheet, r, col)}
    IN /\ date = IF dated = {} THEN NoneV ELSE PayloadDate(sheet, SetMax(dated), col)
       /\ signatures =
              IF rows = {} THEN <<>>
              ELSE IF PayloadHasDate(sheet, SetMax(rows), col)
                   THEN <<Strip(JoinLines(Tail(PayloadLines(sheet, SetMax(rows), col))))>>
                   ELSE <<StrOf(cell(sheet, SetMax(rows) + 1, col))>>

\* C7 (amended): for the extended variant and both payload columns, the last scanned
\* label row with a payload decides the signature list: the remaining lines joined by
\* newlines and trimmed when the payload has two lines or more and its trimmed first
\* line parses as DD.MM.YYYY, the full payload otherwise; the signature date is the
\* date of the last scanned payload that had one, and unset when none had.
C7_SignaturePayload ==
    (MetadataReturned /\ template_type = "starteam") =>
        LET m == metadata[1].metadata
        IN /\ SignatureAmended(workbook[1], 4, m.stgSignatureDate, m.stgSignatures)
           /\ SignatureAmended(workbook[1], 5, m.customerSignatureDate, m.customerSignatures)

\* "15.03.2024\nx" in column 4 and "xx" in column 5 below one label
C7_Witness ==
    /\ pc = "returned" /\ MetadataReturned /\ template_type = "starteam"
    /\ PayloadRows(workbook[1], 4) = {11}
    /\ cell(workbook[1], 12, 4) = StrCell(<<"15.03.2024", NL, "x">>)
    /\ metadata[1].metadata.stgSignatureDate = Some("2024-03-15T00:00:00")
    /\ metadata[1].metadata.stgSignatures = <<<<"x">>>>
    /\ cell(workbook[1], 12, 5) = StrCell(<<"x", "x">>)
    /\ metadata[1].metadata.customerSignatureDate = NoneV
    /\ metadata[1].metadata.customerSignatures = <<<<"x", "x">>>>

(***************************************************************************)
(* SpecQuestions: extract_images, then extract_questions, applied to the   *)
(* workbooks below.  The first sheet has 11 rows; rows 10 and 11 may be    *)
(* question rows.  Either drawings are anchored around them, on the first  *)
(* sheet and on a second one, or the number cells hold values of any type. *)
(***************************************************************************)
Drawing(col, row, ok) == [anchored |-> TRUE, col |-> col, row |-> row, ok |-> ok]

\* a drawing with an absolute anchor (no _from cell)
Unanchored == [anchored |-> FALSE, col |-> 0, row |-> 0, ok |-> TRUE]

\* anchors in columns B..E of rows 10 and 11 (zero-based 1..4 and 9..10)
DrawingInputs ==
    {Drawing(col, row, ok) : col \in 1..4, row \in {9, 10}, ok \in BOOLEAN} \cup {Unanchored}

DrawingSeqs == UNION {[1..k -> DrawingInputs] : k \in 0..MaxImages}

SecondSheets ==
    {<<>>,
     <<Sheet("Notes", {<<1, 1, StrCell(<<"n">>)>>}, <<Drawing(1, 10, TRUE)>>)>>,
     <<Sheet("Notes", {<<1, 1, StrCell(<<"n">>)>>}, <<Drawing(3, 9, TRUE)>>)>>}

NumberCells == {NoneCell, IntCell(1)}

DrawingWorkbooks ==
    {<<Sheet("EQ Template",
             {<<10, 1, n10>>, <<11, 1, n11>>, <<11, 2, StrCell(<<SP, "a", SP>>)>>},
             drawings)>> \o second :
        n10 \in NumberCells, n11 \in NumberCells,
        drawings \in DrawingSeqs, second \in SecondSheets}

NumberInputs ==
    {NoneCell, IntCell(-1), IntCell(0), IntCell(7), IntCell(12), BoolCell(TRUE),
     FloatCell(2), StrCell(<<"3">>), StrCell(<<"0", "7">>), StrCell(<<"x", "1">>),
     StrCell(<<"-", "2">>), StrCell(<<SP, "4">>)}

NumberWorkbooks ==
    {<<Sheet("EQ Template", {<<10, 1, n10>>, <<11, 1, n11>>}, <<>>)>> :
        n10 \in NumberInputs, n11 \in NumberInputs}

\* number cells in rows 9 to 12: question rows around rows that are none
SeparatorCells == {NoneCell, IntCell(1), StrCell(<<"x">>)}
SeparatedWorkbooks ==
    {<<Sheet("EQ Template",
             {<<9, 1, n9>>, <<10, 1, n10>>, <<11, 1, n11>>, <<12, 1, n12>>}, <<>>)>> :
        n9 \in {NoneCell, IntCell(1)}, n10 \in SeparatorCells,
        n11 \in SeparatorCells, n12 \in SeparatorCells}

InitQuestions ==
    /\ pc = "images"
    /\ workbook \in DrawingWorkbooks \cup NumberWorkbooks \cup SeparatedWorkbooks
    /\ template_type \in Templates
    /\ images = NoneV /\ questions = NoneV
    /\ metadata = NoneV /\ eq_data = NoneV /\ validation = NoneV
    /\ IdleBatch
    /\ IdleImport

ExtractImages ==
    /\ pc = "images"
    /\ images' = Some(extract_images(workbook))
    /\ pc' = "questions"
    /\ UNCHANGED <<workbook, template_type, metadata, questions, eq_data, validation>>
    /\ UNCHANGED varsBatch
    /\ UNCHANGED varsImport

ExtractQuestions ==
    /\ pc = "questions"
    /\ questions' = Some(extract_questions(workbook, template_type, images[1].cell_to_images))
    /\ pc' = "returned"
    /\ UNCHANGED <<workbook, template_type, metadata, images, eq_data, validation>>
    /\ UNCHANGED varsBatch
    /\ UNCHANGED varsImport

NextQuestions == ExtractImages \/ ExtractQuestions

SpecQuestions == InitQuestions /\ [][NextQuestions]_vars

(***************************************************************************)
(* Properties of extract_images and extract_questions.                     *)
(***************************************************************************)
QuestionsReturned == images # NoneV /\ questions # NoneV

\* C3 as stated: the no of every Question is a non-empty string of digits.
C3_NoIsDigitString ==
    QuestionsReturned => \A k \in 1..Len(questions[1]) : IsDigit(questions[1][k].no)

\* the places (question, role, position) where image file f is attached
Attachments(f) ==
    LET qs == questions[1]
        At(list) == {i \in 1..Len(list) : list[i] = f}
    IN UNION {({<<k, "description", j>> : j \in At(qs[k].descriptionImages)}
               \cup {<<k, "suggestion", j>> : j \in At(qs[k].suggestionImages)}
               \cup {<<k, "customerResponse", j>> : j \in At(qs[k].customerResponseImages)}) :
              k \in 1..Len(qs)}

RecordedImages ==
    LET m == images[1].cell_to_images
    IN UNION {{m[c][i] : i \in 1..Len(m[c])} : c \in DOMAIN m}

\* C4 as stated: every recorded image is attached exactly once.
C4_AsStated ==
    QuestionsReturned => \A f \in RecordedImages : Cardinality(Attachments(f)) = 1

\* the coordinates of the description, suggestion and response cells of the question rows
RoleCoords ==
    LET qs == questions[1]
    IN UNION {{<<"B">> \o NatToStr(qs[k].row), <<"C">> \o NatToStr(qs[k].row),
               <<IF template_type = "starteam" THEN "E" ELSE "D">> \o NatToStr(qs[k].row)} :
              k \in 1..Len(qs)}

\* C4 (amended): every image recorded at a coordinate is attached exactly once when
\* that coordinate is the description, suggestion or response cell of a question
\* row, and is attached nowhere otherwise; it is never attached twice.
C4_AttachedOnceOrNever ==
    QuestionsReturned =>
        LET m == images[1].cell_to_images
        IN \A c \in DOMAIN m : \A i \in 1..Len(m[c]) :
               Cardinality(Attachments(m[c][i])) = IF c \in RoleCoords THEN 1 ELSE 0

\* one image attached to the description of question row 11, another one, recorded in
\* the number column's neighbour of a row that is no question row, attached nowhere
C4_Witness ==
    /\ pc = "returned" /\ QuestionsReturned /\ template_type = "EQ"
    /\ images[1].cell_to_images =
           (<<"B", "1", "1">> :> <<ImageFilename(1)>>) @@ (<<"C", "1", "0">> :> <<ImageFilename(2)>>)
    /\ Len(questions[1]) = 1
    /\ questions[1][1].descriptionImages = <<ImageFilename(1)>>
    /\ Attachments(ImageFilename(2)) = {}

\* C5: the images attached to a role of a question row are exactly those recorded at
\* the coordinate of that role's cell, in the order recorded: column B for the
\* description, C for the suggestion, and for the response D, or E for the extended
\* variant.
C5_ImagesOfRoleCell ==
    QuestionsReturned =>
        LET m == images[1].cell_to_images
            qs == questions[1]
        IN \A k \in 1..Len(qs) :
               /\ qs[k].descriptionImages = ImagesAt(m, <<"B">> \o NatToStr(qs[k].row))
               /\ qs[k].suggestionImages = ImagesAt(m, <<"C">> \o NatToStr(qs[k].row))
               /\ qs[k].customerResponseImages =
                      ImagesAt(m, <<IF template_type = "starteam" THEN "E" ELSE "D">>
                                      \o NatToStr(qs[k].row))

\* extended variant, row 11: drawings at C11 and E11, and one at B11 found later
C5_Witness ==
    /\ pc = "returned" /\ QuestionsReturned /\ template_type = "starteam"
    /\ workbook[1].images = <<Drawing(2, 10, TRUE), Drawing(4, 10, TRUE)>>
    /\ Len(workbook) = 2 /\ workbook[2].images = <<Drawing(1, 10, TRUE)>>
    /\ Len(questions[1]) = 1
    /\ questions[1][1].descriptionImages = <<ImageFilename(3)>>
    /\ questions[1][1].suggestionImages = <<ImageFilename(1)>>
    /\ questions[1][1].customerResponseImages = <<ImageFilename(2)>>

(***************************************************************************)
(* SpecClassify: identify_template_type applied to workbooks whose first   *)
(* sheet has a name, a width, and a few header cells in row 1.             *)
(***************************************************************************)
HeaderTexts ==
    {MarkerCEA, MarkerApproval, MarkerQuestionnaire, MarkerEQ, MarkerProposal,
     MarkerDecision, <<"R", "EQ", "UEST">>, <<"STG">>, <<"Proposal">>}

HeaderSeqs == UNION {[1..k -> HeaderTexts] : k \in 0..MaxCells}

SheetNames == {"CEA", "EQ Template", "Sheet1"}

\* the sheet is 3 rows high and width columns wide
ClassifyWorkbooks ==
    {<<Sheet(name,
             {<<3, width, NoneCell>>} \cup {<<1, c, StrCell(header[c])>> : c \in 1..Len(header)},
             <<>>)>> :
        name \in SheetNames, width \in {6, 7, 9, 10}, header \in HeaderSeqs}

\* one marker at the edge of the sample window, in a sheet that reaches beyond it
WindowWorkbooks ==
    {<<Sheet(name, {<<21, 16, NoneCell>>, <<r, c, StrCell(marker)>>}, <<>>)>> :
        name \in SheetNames, r \in {1, 19, 20, 21}, c \in {1, 14, 15, 16},
        marker \in {MarkerEQ, MarkerQuestionnaire}}

InitClassify ==
    /\ pc = "call"
    /\ workbook \in ClassifyWorkbooks \cup WindowWorkbooks
    /\ template_type = "unset"
    /\ metadata = NoneV /\ images = NoneV /\ questions = NoneV
    /\ eq_data = NoneV /\ validation = NoneV
    /\ IdleBatch
    /\ IdleImport

Classify ==
    /\ pc = "call"
    /\ template_type' = identify_template_type(workbook)
    /\ pc' = "returned"
    /\ UNCHANGED <<workbook, metadata, images, questions, eq_data, validation>>
    /\ UNCHANGED varsBatch
    /\ UNCHANGED varsImport

NextClassify == Classify

SpecClassify == InitClassify /\ [][NextClassify]_vars

HasMarker(marker) == Contains(SampleText(workbook[1]), marker)

\* no content rule applies to the workbook
NoContentRule ==
    /\ ~(HasMarker(MarkerCEA) /\ HasMarker(MarkerApproval) /\ workbook[1].name = "CEA")
    /\ ~(HasMarker(MarkerQuestionnaire) \/ HasMarker(MarkerEQ))

\* C8: when no content rule applies, a first sheet named CEA with at most 6 columns
\* classifies as CEA, one named 'EQ Template' as starteam with 10 columns or more and
\* as EQ otherwise, and every other workbook as none.
C8_StructuralFallback ==
    (template_type # "unset" /\ workbook # <<>> /\ NoContentRule) =>
        template_type =
            CASE workbook[1].name = "CEA" /\ max_column(workbook[1]) < 7 -> "CEA"
              [] workbook[1].name = "EQ Template" /\ max_column(workbook[1]) > 9 -> "starteam"
              [] workbook[1].name = "EQ Template" /\ max_column(workbook[1]) < 10 -> "EQ"
              [] OTHER -> "None"

\* a sheet named CEA, 6 columns wide, with no keyword in it, classified as CEA
C8_Witness ==
    /\ pc = "returned" /\ template_type = "CEA"
    /\ workbook[1].name = "CEA" /\ max_column(workbook[1]) = 6
    /\ cell(workbook[1], 1, 1) = StrCell(<<"Proposal">>)
    /\ \A m \in {MarkerCEA, MarkerApproval, MarkerQuestionnaire, MarkerEQ,
                 MarkerProposal, MarkerDecision} : ~HasMarker(m)

(***************************************************************************)
(* Spec: main's batch loop over the input files, process_excel_file one    *)
(* step at a time.                                                         *)
(***************************************************************************)
Acme == StrCell(<<"A", "c", "m", "e">>)

InputFile(name, bytes, loadable, wb) ==
    [name |-> name, bytes |-> bytes, loadable |-> loadable, workbook |-> wb]

\* no template matches
OutlierFile ==
    InputFile(<<"o", ".", "xlsx">>, "bytes-o", TRUE,
              <<Sheet("Sheet1", {<<1, 1, StrCell(<<"Part">>)>>, <<3, 3, IntCell(5)>>}, <<>>)>>)

\* a questionnaire with two questions and a drawing in a description cell
QuestionnaireFile ==
    InputFile(<<"a", ".", "xlsx">>, "bytes-a", TRUE,
              <<Sheet("EQ Template",
                      {<<1, 1, StrCell(MarkerQuestionnaire)>>, <<1, 3, Acme>>,
                       <<2, 3, StrCell(<<"a", NL, "b">>)>>,
                       <<10, 1, IntCell(1)>>, <<10, 2, StrCell(<<"d">>)>>,
                       <<11, 1, IntCell(2)>>},
                      <<Drawing(1, 9, TRUE)>>)>>)

\* the same questionnaire without a customer name
NamelessFile ==
    InputFile(<<"b", ".", "xlsx">>, "bytes-b", TRUE,
              <<Sheet("EQ Template",
                      {<<1, 1, StrCell(MarkerQuestionnaire)>>,
                       <<10, 1, IntCell(1)>>, <<11, 1, IntCell(2)>>},
                      <<Drawing(1, 9, TRUE)>>)>>)

\* a file load_workbook cannot read
CorruptFile == InputFile(<<"c", ".", "xlsx">>, "bytes-c", FALSE, <<>>)

\* an approval form named by its sheet only, with a dotted base name
ApprovalFile ==
    InputFile(<<"a", ".", "b", ".", "xlsx">>, "bytes-ab", TRUE,
              <<Sheet("CEA", {<<1, 3, Acme>>, <<10, 1, StrCell(<<"1">>)>>, <<10, 6, NoneCell>>},
                      <<>>)>>)

\* a questionnaire of 7 rows
ShortFile ==
    InputFile(<<"s", ".", "xlsx">>, "bytes-s", TRUE,
              <<Sheet("EQ Template", {<<1, 1, StrCell(MarkerEQ)>>, <<1, 3, Acme>>}, <<>>)>>)

\* a questionnaire with a date in its top-date cell
DatedFile ==
    InputFile(<<"d", ".", "xlsx">>, "bytes-d", TRUE,
              <<Sheet("EQ Template",
                      {<<1, 1, StrCell(MarkerQuestionnaire)>>, <<1, 3, Acme>>,
                       <<3, 5, DateCell("2024-03-15T00:00:00")>>,
                       <<10, 1, IntCell(1)>>, <<11, 1, IntCell(2)>>},
                      <<>>)>>)

\* a questionnaire with text in its top-date cell
TextDateFile ==
    InputFile(<<"t", ".", "xlsx">>, "bytes-t", TRUE,
              <<Sheet("EQ Template",
                      {<<1, 1, StrCell(MarkerQuestionnaire)>>, <<1, 3, Acme>>,
                       <<3, 5, StrCell(<<"15.03.2024">>)>>,
                       <<10, 1, IntCell(1)>>, <<11, 1, IntCell(2)>>},
                      <<>>)>>)

\* a questionnaire without a customer name whose number cells hold 0, False, the
\* empty string and "07"
OddNumbersFile ==
    InputFile(<<"n", ".", "xlsx">>, "bytes-n", TRUE,
              <<Sheet("EQ Template",
                      {<<1, 1, StrCell(MarkerQuestionnaire)>>, <<1, 3, IntCell(0)>>,
                       <<10, 1, IntCell(0)>>, <<11, 1, BoolCell(FALSE)>>,
                       <<12, 1, StrCell(<<>>)>>, <<13, 1, StrCell(<<"0", "7">>)>>},
                      <<>>)>>)

InputFiles ==
    {OutlierFile, QuestionnaireFile, NamelessFile, CorruptFile, ApprovalFile, ShortFile,
     DatedFile, TextDateFile, OddNumbersFile}

\* os.listdir: files of distinct names, in any order
FileLists ==
    {files \in UNION {[1..k -> InputFiles] : k \in 1..MaxFiles} :
        \A i, j \in 1..Len(files) : i # j => files[i].name # files[j].name}

Init ==
    /\ pc = "next"
    /\ excel_files \in FileLists
    /\ file_index = 0
    /\ workbook = <<>> /\ template_type = "unset" /\ metadata = NoneV
    /\ images = NoneV /\ questions = NoneV /\ eq_data = NoneV /\ validation = NoneV
    /\ output_fs = EmptyFs /\ outlier_fs = EmptyFs
    /\ run_log = <<>> /\ results = <<>>
    /\ success_count = 0 /\ outlier_count = 0 /\ processed_count = 0
    /\ IdleImport

file == excel_files[file_index]
file_output_dir == OutputDirName(file.name)

\* main counting every classification miss as an outlier, copied or not
ReturnCountsEveryMiss(success, is_outlier) ==
    /\ results' = Append(results, [success |-> success, is_outlier |-> is_outlier])
    /\ success_count' = IF success THEN success_count + 1 ELSE success_count
    /\ outlier_count' = IF is_outlier THEN outlier_count + 1 ELSE outlier_count
    /\ processed_count' = IF success /\ ~is_outlier THEN processed_count + 1
                          ELSE processed_count
    /\ pc' = "next"

\* process_excel_file returns (success, is_outlier); main counts it (lines 619-625)
Return(success, is_outlier) ==
    /\ results' = Append(results, [success |-> success, is_outlier |-> is_outlier])
    /\ success_count' = IF success THEN success_count + 1 ELSE success_count
    /\ outlier_count' = IF success /\ is_outlier THEN outlier_count + 1 ELSE outlier_count
    /\ processed_count' = IF success /\ ~is_outlier THEN processed_count + 1
                          ELSE processed_count
    /\ pc' = "next"

Continue(next_pc) ==
    /\ pc' = next_pc
    /\ UNCHANGED <<results, success_count, outlier_count, processed_count>>

\* an exception that leaves process_excel_file and ends the loop of main
RaiseAbortsBatch(step) ==
    /\ run_log' = Append(run_log, <<"raise", step>>)
    /\ pc' = "done"
    /\ UNCHANGED <<results, success_count, outlier_count, processed_count>>

\* the except clause of process_excel_file (lines 565-569)
Raise(step) ==
    /\ run_log' = Append(run_log, <<"raise", step>>)
    /\ Return(FALSE, FALSE)

\* main, line 618: the next file, or the summary
NextFile ==
    /\ pc = "next" /\ file_index < Len(excel_files)
    /\ file_index' = file_index + 1
    /\ pc' = "load"
    /\ workbook' = <<>> /\ template_type' = "unset" /\ metadata' = NoneV
    /\ images' = NoneV /\ questions' = NoneV /\ eq_data' = NoneV /\ validation' = NoneV
    /\ run_log' = <<>>
    /\ UNCHANGED <<excel_files, output_fs, outlier_fs, results,
                   success_count, outlier_count, processed_count>>
    /\ UNCHANGED varsImport

Summary ==
    /\ pc = "next" /\ file_index = Len(excel_files)
    /\ pc' = "done"
    /\ UNCHANGED varsFile
    /\ UNCHANGED varsBatch
    /\ UNCHANGED varsImport

\* line 511
LoadWorkbook ==
    /\ pc = "load"
    /\ IF file.loadable
       THEN /\ workbook' = file.workbook
            /\ run_log' = Append(run_log, <<"load">>)
            /\ Continue("classify")
       ELSE /\ Raise("load")
            /\ UNCHANGED workbook
    /\ UNCHANGED <<template_type, metadata, images, questions, eq_data, validation,
                   excel_files, file_index, output_fs, outlier_fs>>
    /\ UNCHANGED varsImport

\* lines 514-518
IdentifyTemplate ==
    /\ pc = "classify"
    /\ template_type' = identify_template_type(workbook)
    /\ run_log' = Append(run_log, <<"classify">>)
    /\ Continue(IF RoutesToOutlier(template_type') THEN "outlier" ELSE "mkdir")
    /\ UNCHANGED <<workbook, metadata, images, questions, eq_data, validation,
                   excel_files, file_index, output_fs, outlier_fs>>
    /\ UNCHANGED varsImport

\* handle_outlier_file: the copy or the note may fail; process_excel_file returns its verdict
HandleOutlier ==
    /\ pc = "outlier"
    /\ \E outcome \in {"ok", "copy fails", "note fails"} :
        /\ outlier_fs' =
               CASE outcome = "copy fails" -> outlier_fs
                 [] outcome = "note fails" ->
                        WithFiles(outlier_fs, {file.name}, Stored("copy", file.bytes))
                 [] OTHER ->
                        WithFiles(WithFiles(outlier_fs, {file.name}, Stored("copy", file.bytes)),
                                  {Splitext(file.name) \o <<"_info.txt">>},
                                  Stored("note", "-"))
        /\ run_log' = Append(run_log, <<"outlier", outcome>>)
        /\ Return(outcome = "ok", TRUE)
    /\ UNCHANGED varsFile
    /\ UNCHANGED <<excel_files, file_index, output_fs>>
    /\ UNCHANGED varsImport

\* lines 523-524: os.makedirs(<output>/<dir>/images, exist_ok=True)
MakeOutputDir ==
    /\ pc = "mkdir"
    /\ \E ok \in BOOLEAN :
        IF ok
        THEN /\ output_fs' = WithDirs(output_fs, {file_output_dir \o <<"/">>,
                                                  file_output_dir \o <<"/", "images", "/">>})
             /\ run_log' = Append(run_log, <<"mkdir">>)
             /\ Continue("metadata")
        ELSE /\ Raise("mkdir")
             /\ UNCHANGED output_fs
    /\ UNCHANGED varsFile
    /\ UNCHANGED <<excel_files, file_index, outlier_fs>>
    /\ UNCHANGED varsImport

\* line 527
StepMetadata ==
    /\ pc = "metadata"
    /\ metadata' = Some(extract_metadata(workbook, template_type))
    /\ IF metadata'[1].raised
       THEN Raise("metadata")
       ELSE /\ run_log' = Append(run_log, <<"metadata">>)
            /\ Continue("images")
    /\ UNCHANGED <<workbook, template_type, images, questions, eq_data, validation,
                   excel_files, file_index, output_fs, outlier_fs>>
    /\ UNCHANGED varsImport

\* line 528: the drawings that decode are saved under <dir>/images/
StepImages ==
    /\ pc = "images"
    /\ images' = Some(extract_images(workbook))
    /\ output_fs' = WithFiles(output_fs,
                              {file_output_dir \o <<"/", "images", "/">> \o f :
                                   f \in images'[1].saved},
                              Stored("png", file.bytes))
    /\ run_log' = Append(run_log, <<"images", NatToStr(Cardinality(images'[1].saved))>>)
    /\ Continue("questions")
    /\ UNCHANGED <<workbook, template_type, metadata, questions, eq_data, validation,
                   excel_files, file_index, outlier_fs>>
    /\ UNCHANGED varsImport

\* line 529
StepQuestions ==
    /\ pc = "questions"
    /\ questions' = Some(extract_questions(workbook, template_type, images[1].cell_to_images))
    /\ run_log' = Append(run_log, <<"questions">>)
    /\ Continue("map")
    /\ UNCHANGED <<workbook, template_type, metadata, images, eq_data, validation,
                   excel_files, file_index, output_fs, outlier_fs>>
    /\ UNCHANGED varsImport

\* line 542
StepMap ==
    /\ pc = "map"
    /\ eq_data' = map_to_schema(metadata[1].metadata, questions[1], file.name)
    /\ run_log' = Append(run_log, <<"map">>)
    /\ Continue("validate")
    /\ UNCHANGED <<workbook, template_type, metadata, images, questions, validation,
                   excel_files, file_index, output_fs, outlier_fs>>
    /\ UNCHANGED varsImport

\* lines 545-548
StepValidate ==
    /\ pc = "validate"
    /\ validation' = Some(validate_extracted_data(eq_data))
    /\ run_log' = Append(run_log, <<"validate", IF validation'[1].is_valid THEN "pass" ELSE "fail">>)
    /\ IF ValidationStops(validation'[1]) THEN Return(FALSE, FALSE) ELSE Continue("write")
    /\ UNCHANGED <<workbook, template_type, metadata, images, questions, eq_data,
                   excel_files, file_index, output_fs, outlier_fs>>
    /\ UNCHANGED varsImport

\* lines 551-552: index.json is opened and written, or open() raises
WriteIndexJson ==
    /\ pc = "write"
    /\ \E ok \in BOOLEAN :
        IF ok
        THEN /\ output_fs' = WithFiles(output_fs, {file_output_dir \o <<"/", "index.json">>},
                                       Stored("json", file.bytes))
             /\ run_log' = Append(run_log, <<"write", "index.json">>)
             /\ Continue("copy")
        ELSE /\ Raise("write")
             /\ UNCHANGED output_fs
    /\ UNCHANGED varsFile
    /\ UNCHANGED <<excel_files, file_index, outlier_fs>>
    /\ UNCHANGED varsImport

\* lines 555-563: a failed copy of the original is only warned about
CopyOriginal ==
    /\ pc = "copy"
    /\ \E ok \in BOOLEAN :
        IF ok
        THEN /\ output_fs' = WithFiles(output_fs, {file_output_dir \o <<"/", "index.xlsx">>},
                                       Stored("xlsx", file.bytes))
             /\ run_log' = Append(run_log, <<"write", "index.xlsx">>)
        ELSE /\ run_log' = Append(run_log, <<"warning", "index.xlsx">>)
             /\ UNCHANGED output_fs
    /\ Return(TRUE, FALSE)
    /\ UNCHANGED varsFile
    /\ UNCHANGED <<excel_files, file_index, outlier_fs>>
    /\ UNCHANGED varsImport

Next ==
    \/ NextFile \/ Summary \/ LoadWorkbook \/ IdentifyTemplate \/ HandleOutlier
    \/ MakeOutputDir \/ StepMetadata \/ StepImages \/ StepQuestions \/ StepMap
    \/ StepValidate \/ WriteIndexJson \/ CopyOriginal

Spec == Init /\ [][Next]_vars

(***************************************************************************)
(* Properties of process_excel_file.                                       *)
(***************************************************************************)
\* the current run did step
Did(step) == \E i \in 1..Len(run_log) : run_log[i][1] = step

\* the workbook matches no content rule and no structural rule of the classifier
MatchesNoRule(wb) ==
    LET text == SampleText(wb[1])
    IN /\ ~(Contains(text, <<"CEA">>)
            /\ Contains(text, <<"Customer", SP, "Engineering", SP, "Approval">>)
            /\ wb[1].name = "CEA")
       /\ ~Contains(text, <<"Engineering", SP, "Questionnaire">>)
       /\ ~Contains(text, <<"EQ">>)
       /\ ~(wb[1].name = "CEA" /\ max_column(wb[1]) <= 6)
       /\ wb[1].name # "EQ Template"

\* the files stored under the output directory by the run on input file f
WrittenFor(f) == {p \in DOMAIN output_fs : output_fs[p] # Dir /\ output_fs[p].bytes = f.bytes}

\* C1: a workbook that matches no rule classifies as none and is routed to the
\* outlier handler, which is invoked in that case only; no extraction step runs and
\* no output directory is made for it; the copy in the outlier directory has the
\* bytes of the input file.
C1_OutlierRouting ==
    /\ Did("classify") =>
           /\ MatchesNoRule(workbook) <=> template_type = "None"
           /\ MatchesNoRule(workbook) =>
                  /\ pc = "outlier" \/ Did("outlier")
                  /\ ~Did("mkdir") /\ ~Did("metadata") /\ ~Did("images") /\ ~Did("questions")
                  /\ metadata = NoneV /\ images = NoneV /\ questions = NoneV
                  /\ WrittenFor(file) = {}
    /\ Did("outlier") => Did("classify") /\ MatchesNoRule(workbook)
    /\ \A i \in 1..Len(results) :
           /\ results[i].is_outlier =>
                  /\ WrittenFor(excel_files[i]) = {}
                  /\ excel_files[i].name \in DOMAIN outlier_fs =>
                         outlier_fs[excel_files[i].name] = Stored("copy", excel_files[i].bytes)
           /\ (results[i].is_outlier /\ results[i].success) =>
                  excel_files[i].name \in DOMAIN outlier_fs

\* the outlier file has been copied, after a recognised file was processed
C1_Witness ==
    /\ pc = "next" /\ Len(results) = 2
    /\ excel_files = <<QuestionnaireFile, OutlierFile>>
    /\ results[2] = [success |-> TRUE, is_outlier |-> TRUE]
    /\ run_log = <<<<"load">>, <<"classify">>, <<"outlier", "ok">>>>
    /\ outlier_fs[OutlierFile.name] = Stored("copy", "bytes-o")
    /\ DOMAIN output_fs = {<<"a", "/">>, <<"a", "/", "images", "/">>,
                           <<"a", "/", "images", "/", "image_", "1", ".png">>,
                           <<"a", "/", "index.json">>, <<"a", "/", "index.xlsx">>}

\* C9 as stated: when validation fails the file is marked failed and its run has
\* written nothing under the output directory.
C9_NothingWrittenOnValidationFailure ==
    Did("validate") /\ run_log[Len(run_log)] = <<"validate", "fail">> =>
        /\ results[Len(results)] = [success |-> FALSE, is_outlier |-> FALSE]
        /\ WrittenFor(file) = {}

\* C10: in every run index.json is written only after validation has passed, and
\* after no step has raised.
C10_IndexJsonAfterValidation ==
    \A i \in 1..Len(run_log) :
        run_log[i] = <<"write", "index.json">> =>
            /\ \E j \in 1..(i - 1) : run_log[j] = <<"validate", "pass">>
            /\ \A j \in 1..(i - 1) : run_log[j][1] # "raise" /\ run_log[j] # <<"validate", "fail">>
            /\ validation # NoneV /\ validation[1].is_valid
            /\ validation[1] = validate_extracted_data(eq_data)

\* index.json of the questionnaire has been written, after a file that failed validation
C10_Witness ==
    /\ excel_files = <<NamelessFile, QuestionnaireFile>>
    /\ Len(results) = 1 /\ ~results[1].success
    /\ Did("write") /\ pc = "copy"
    /\ <<"a", "/", "index.json">> \in DOMAIN output_fs
    /\ <<"b", "/", "index.json">> \notin DOMAIN output_fs

\* C11: whatever happens to a file (a raise while loading, making the directory,
\* extracting or writing; a failed validation; a failed outlier copy),
\* process_excel_file returns one (success, is_outlier) pair for it, and the loop of
\* main has called it exactly once on every file before it, so the batch ends only
\* after every file of the list has returned.
C11_EveryFileReturns ==
    /\ \A i \in 1..Len(results) : results[i] \in [success : BOOLEAN, is_outlier : BOOLEAN]
    /\ pc \in {"next", "done"} => Len(results) = file_index
    /\ pc \notin {"next", "done"} =>
           /\ file_index \in 1..Len(excel_files)
           /\ Len(results) = file_index - 1
    /\ pc = "done" => Len(results) = Len(excel_files)
    /\ pc # "done" => ENABLED Next

\* the batch has ended: the first file could not be loaded, the second was processed
C11_Witness ==
    /\ pc = "done"
    /\ excel_files = <<CorruptFile, QuestionnaireFile>>
    /\ results = << [success |-> FALSE, is_outlier |-> FALSE],
                    [success |-> TRUE, is_outlier |-> FALSE] >>
    /\ <<"a", "/", "index.json">> \in DOMAIN output_fs

\* the files that have returned with the given verdict
Returned(success, is_outlier) ==
    {i \in 1..Len(results) : results[i] = [success |-> success, is_outlier |-> is_outlier]}

\* the summary line "Failed to process" (line 631)
FailedCount == Len(excel_files) - success_count

\* C12 as stated: at the end of the batch the three categories add up to the total,
\* and every file for which the classifier returned none is counted as an outlier.
C12_AsStated ==
    pc = "done" =>
        /\ processed_count + outlier_count + FailedCount = Len(excel_files)
        /\ outlier_count = Cardinality(Returned(TRUE, TRUE) \union Returned(FALSE, TRUE))

\* C12: at the end of the batch the three categories add up to the total; a file is
\* counted as outlier when the classifier returned none and the outlier handler
\* succeeded, as processed when its index.json was written, and as failed otherwise,
\* a classification miss whose copy or note failed included.
C12_SummaryCounts ==
    /\ outlier_count = Cardinality(Returned(TRUE, TRUE))
    /\ processed_count = Cardinality(Returned(TRUE, FALSE))
    /\ success_count = outlier_count + processed_count
    /\ pc = "done" =>
           /\ processed_count + outlier_count + FailedCount = Len(excel_files)
           /\ FailedCount = Cardinality(Returned(FALSE, TRUE) \union Returned(FALSE, FALSE))
    /\ pc = "next" /\ file_index > 0 =>
           LET r == results[file_index]
           IN /\ r.is_outlier <=> template_type = "None"
              /\ (r.success /\ ~r.is_outlier) <=>
                     \E i \in 1..Len(run_log) : run_log[i] = <<"write", "index.json">>
              /\ (r.success /\ r.is_outlier) <=>
                     run_log[Len(run_log)] = <<"outlier", "ok">>

\* the batch has ended: the questionnaire was processed, the copy of the outlier failed
C12_Witness ==
    /\ pc = "done"
    /\ excel_files = <<QuestionnaireFile, OutlierFile>>
    /\ Returned(TRUE, FALSE) = {1} /\ Returned(FALSE, TRUE) = {2}
    /\ outlier_count = 0 /\ processed_count = 1 /\ FailedCount = 1

(***************************************************************************)
(* Properties of extract_images: the names given to the drawings.          *)
(***************************************************************************)
\* the anchored drawings of the workbook, as <<sheet index, drawing index>>
AnchoredDrawings(wb) ==
    {p \in UNION {{<<s, k>> : k \in 1..Len(wb[s].images)} : s \in 1..Len(wb)} :
        wb[p[1]].images[p[2]].anchored}

\* p comes before q in the order of the two loops
DrawnBefore(p, q) == p[1] < q[1] \/ (p[1] = q[1] /\ p[2] < q[2])

\* the workbook as the loops have seen it when they reach drawing p
SeenBefore(wb, p) ==
    [s \in 1..p[1] |->
        IF s < p[1] THEN wb[s]
        ELSE [wb[s] EXCEPT !.images = SubSeq(wb[s].images, 1, p[2] - 1)]]

\* image_counter when the loops reach drawing p, and when they have handled it
CounterAt(wb, p) == ExtractFromSheets(SeenBefore(wb, p), NoImages).image_counter
CounterAfter(wb, p) ==
    ExtractFromSheets(SeenBefore(wb, <<p[1], p[2] + 1>>), NoImages).image_counter

\* the file name given to drawing p (line 331)
NameGiven(wb, p) == ImageFilename(CounterAt(wb, p))

\* the number of places of the mapping that hold file name f
Occurrences(cell_to_images, f) ==
    Cardinality({e \in UNION {{<<c, i>> : i \in 1..Len(cell_to_images[c])} :
                                  c \in DOMAIN cell_to_images} :
                     cell_to_images[e[1]][e[2]] = f})

ImagesReturned == images # NoneV /\ pc \in {"questions", "returned"}

\* C13: within one run of extract_images the file names given to the anchored
\* drawings of all sheets are pairwise distinct, the counter starts at 1 and only
\* increases from one drawing to the next, and every file name of the
\* cell-to-images mapping occurs there exactly once.
C13_DistinctImageNames ==
    ImagesReturned =>
        LET drawn == AnchoredDrawings(workbook)
            m == images[1].cell_to_images
        IN /\ \A p, q \in drawn : p # q => NameGiven(workbook, p) # NameGiven(workbook, q)
           /\ \A p \in drawn :
                  /\ CounterAt(workbook, p) >= 1
                  /\ CounterAfter(workbook, p) > CounterAt(workbook, p)
                  /\ (\A q \in drawn : ~DrawnBefore(q, p)) => CounterAt(workbook, p) = 1
           /\ \A p, q \in drawn :
                  DrawnBefore(p, q) => CounterAt(workbook, p) < CounterAt(workbook, q)
           /\ \A c \in DOMAIN m : \A i \in 1..Len(m[c]) :
                  /\ Occurrences(m, m[c][i]) = 1
                  /\ \E p \in drawn : m[c][i] = NameGiven(workbook, p)

\* two drawings on the first sheet and one on the second, anchored in the same
\* cell of their sheets, have been saved
C13_Witness ==
    /\ ImagesReturned
    /\ Len(workbook) = 2
    /\ workbook[1].images = <<Drawing(3, 9, TRUE), Drawing(1, 9, TRUE)>>
    /\ workbook[2].images = <<Drawing(3, 9, TRUE)>>
    /\ images[1].cell_to_images[<<"D", "1", "0">>] =
           <<ImageFilename(1), ImageFilename(3)>>
    /\ images[1].cell_to_images[<<"B", "1", "0">>] = <<ImageFilename(2)>>

\* the result of the loops once they have handled drawing p
ResultAfter(wb, p) == ExtractFromSheets(SeenBefore(wb, <<p[1], p[2] + 1>>), NoImages)
ResultBefore(wb, p) == ExtractFromSheets(SeenBefore(wb, p), NoImages)

\* C20: a drawing that fails to decode or save adds nothing to the cell-to-images
\* mapping, the drawings after it are still extracted, and the counter advances
\* for it as for a saved one: the name given to a drawing is image_<1 + the number
\* of anchored drawings before it>, whether or not those decoded.
C20_FailureSkippedCounterAdvances ==
    ImagesReturned =>
        LET drawn == AnchoredDrawings(workbook)
            m == images[1].cell_to_images
            Ok(p) == workbook[p[1]].images[p[2]].ok
            At(p) == Coord(ColLetter(workbook[p[1]].images[p[2]].col),
                           workbook[p[1]].images[p[2]].row + 1)
        IN \A p \in drawn :
               /\ CounterAt(workbook, p) =
                      1 + Cardinality({q \in drawn : DrawnBefore(q, p)})
               /\ ~Ok(p) =>
                      /\ ResultAfter(workbook, p).cell_to_images =
                             ResultBefore(workbook, p).cell_to_images
                      /\ ResultAfter(workbook, p).saved = ResultBefore(workbook, p).saved
                      /\ Occurrences(m, NameGiven(workbook, p)) = 0
                      /\ NameGiven(workbook, p) \notin images[1].saved
               /\ Ok(p) =>
                      /\ NameGiven(workbook, p) \in images[1].saved
                      /\ \E i \in 1..Len(ImagesAt(m, At(p))) :
                             m[At(p)][i] = NameGiven(workbook, p)

\* the first drawing failed to decode; the second was saved as image_2.png
C20_Witness ==
    /\ ImagesReturned
    /\ Len(workbook) = 1
    /\ workbook[1].images = <<Drawing(1, 9, FALSE), Drawing(2, 9, TRUE)>>
    /\ images[1].cell_to_images = (<<"C", "1", "0">> :> <<ImageFilename(2)>>)
    /\ images[1].saved = {ImageFilename(2)}
    /\ images[1].image_counter = 3

\* C14 as stated: the output sub-directory made for a recognised file is named after
\* the file's base name with only its extension removed (a.b.xlsx maps to a.b).
C14_DirNamedWithoutExtension ==
    Did("mkdir") =>
        /\ file_output_dir = Splitext(file.name)
        /\ (Splitext(file.name) \o <<"/">>) \in DOMAIN output_fs

(***************************************************************************)
(* src/json2db.py: the import of the documents into the relational store   *)
(* and the object storage.  SpecImport is a series of calls of             *)
(* process_json_file, one step of it at a time; every store operation may  *)
(* fail, MaxFaults times in all.  Identifiers (uuid4) are modelled as      *)
(* fresh numbers.                                                          *)
(***************************************************************************)
MaxImports == 3
MaxFaults == 1

\* clean_value: None becomes the empty string, text is stripped
clean_value(value) == IF value = NoneV THEN <<>> ELSE Strip(value[1])

\* an image object of index.json, and a question of index.json
ImageObject(name) == [name |-> Some(name)]
QuestionData(no, desc_images, sugg_images, resp_images) ==
    [no |-> Some(no), descriptionImages |-> desc_images,
     suggestionImages |-> sugg_images, customerResponseImages |-> resp_images]

\* a document directory: index.json, and what lies beside it
JsonDir(dir, file_name, qs, has_xlsx, has_images_dir, image_files) ==
    [dir |-> dir, data |-> [fileName |-> file_name, questions |-> qs],
     has_xlsx |-> has_xlsx, has_images_dir |-> has_images_dir,
     image_files |-> image_files]

\* two questions, three images; image_2.png is missing from images/
DirA ==
    JsonDir("a", Some(<<"a", ".", "xlsx">>),
            << QuestionData(<<"1">>,
                            <<ImageObject(ImageFilename(1)), ImageObject(ImageFilename(2))>>,
                            <<>>, <<>>),
               QuestionData(<<"2">>, <<>>, <<>>, <<ImageObject(ImageFilename(3))>>) >>,
            TRUE, TRUE, {ImageFilename(1), ImageFilename(3)})

\* another directory whose document carries the same file name, padded
DirACopy ==
    JsonDir("a2", Some(<<SP, "a", ".", "xlsx">>),
            << QuestionData(<<"1">>, <<>>, <<ImageObject(ImageFilename(1))>>, <<>>) >>,
            TRUE, TRUE, {ImageFilename(1)})

\* a document without index.xlsx and without images/
DirB ==
    JsonDir("b", Some(<<"b", ".", "xlsx">>),
            << QuestionData(<<"1">>, <<>>, <<>>, <<>>) >>,
            FALSE, FALSE, {})

JsonDirs == {DirA, DirACopy, DirB}

\* the three image lists of a question, in the order process_json_file takes them
Roles == <<"description", "suggestion", "customer_response">>
RoleImages(question_data, role) ==
    CASE role = 1 -> question_data.descriptionImages
      [] role = 2 -> question_data.suggestionImages
      [] OTHER -> question_data.customerResponseImages

\* the places <<role, k>> of a question's image objects, and the first one after pos
ImagePlaces(question_data) ==
    UNION {{<<role, k>> : k \in 1..Len(RoleImages(question_data, role))} : role \in 1..3}
PlaceBefore(p, q) == p[1] < q[1] \/ (p[1] = q[1] /\ p[2] < q[2])
NextPlace(question_data, pos) ==
    LET later == {p \in ImagePlaces(question_data) : PlaceBefore(pos, p)}
    IN IF later = {} THEN NoneV
       ELSE Some(CHOOSE p \in later : \A q \in later : p = q \/ PlaceBefore(p, q))

\* the locals of process_json_file when it is entered
Unbound == "unbound"
EntryFrame ==
    [original_file_id |-> Unbound, eq_id |-> 0, q |-> 0, question_id |-> 0, place |-> NoneV]

\* the outcomes a store operation may have
Outcomes(failures) == {"ok"} \cup (IF faults < MaxFaults THEN failures ELSE {})

\* a plausible slip: a file that does not exist uploaded as an empty object
upload_file_to_s3_unchecked(exists, base_file_name, outcome) ==
    LET file_id == uuid_counter + 1
        object == [key |-> file_id, name |-> base_file_name]
        row == [id |-> file_id, name |-> base_file_name, key |-> file_id]
    IN CASE outcome = "upload fails" ->
                [file_id |-> NoneV, File |-> db.File, s3 |-> s3_bucket,
                 uuid |-> file_id, log |-> <<>>]
         [] outcome = "file insert fails" ->
                [file_id |-> NoneV, File |-> db.File, s3 |-> Append(s3_bucket, object),
                 uuid |-> file_id, log |-> << <<"upload", base_file_name>> >>]
         [] OTHER ->
                [file_id |-> Some(file_id), File |-> Append(db.File, row),
                 s3 |-> Append(s3_bucket, object), uuid |-> file_id,
                 log |-> << <<"upload", base_file_name>>,
                            <<"insert", "File", base_file_name>> >>]

\* upload_file_to_s3: what it returns and what it leaves in the stores
upload_file_to_s3(exists, base_file_name, outcome) ==
    LET file_id == uuid_counter + 1
        object == [key |-> file_id, name |-> base_file_name]
        row == [id |-> file_id, name |-> base_file_name, key |-> file_id]
    IN IF ~exists
       THEN [file_id |-> NoneV, File |-> db.File, s3 |-> s3_bucket,
             uuid |-> uuid_counter, log |-> <<>>]
       ELSE CASE outcome = "upload fails" ->
                     [file_id |-> NoneV, File |-> db.File, s3 |-> s3_bucket,
                      uuid |-> file_id, log |-> <<>>]
              [] outcome = "file insert fails" ->
                     [file_id |-> NoneV, File |-> db.File, s3 |-> Append(s3_bucket, object),
                      uuid |-> file_id, log |-> << <<"upload", base_file_name>> >>]
              [] OTHER ->
                     [file_id |-> Some(file_id), File |-> Append(db.File, row),
                      s3 |-> Append(s3_bucket, object), uuid |-> file_id,
                      log |-> << <<"upload", base_file_name>>,
                                 <<"insert", "File", base_file_name>> >>]

\* repeated runs of the import over the document directories
JsonCalls == UNION {[1..k -> JsonDirs] : k \in 1..MaxImports}

InitImport ==
    /\ pc = "import"
    /\ json_calls \in JsonCalls
    /\ call_index = 0
    /\ db = EmptyDb /\ s3_bucket = <<>>
    /\ frame = <<>> /\ import_log = <<>> /\ import_results = <<>>
    /\ uuid_counter = 0 /\ faults = 0
    /\ workbook = <<>> /\ template_type = "unset" /\ metadata = NoneV
    /\ images = NoneV /\ questions = NoneV /\ eq_data = NoneV /\ validation = NoneV
    /\ IdleBatch

json_dir == json_calls[call_index]
data == json_dir.data

\* process_json_file returns
ReturnImport(success) ==
    /\ import_results' = Append(import_results, success)
    /\ pc' = "import"

\* process_json_file is called on the next directory
CallProcessJsonFile ==
    /\ pc = "import" /\ call_index < Len(json_calls)
    /\ call_index' = call_index + 1
    /\ frame' = EntryFrame
    /\ import_log' = <<>>
    /\ pc' = "check"
    /\ UNCHANGED <<json_calls, db, s3_bucket, import_results, uuid_counter, faults>>
    /\ UNCHANGED varsFile
    /\ UNCHANGED varsBatch

\* a plausible slip: the check for an existing row left out
existing_eq_unchecked(file_name_to_check) == FALSE

\* lines 247-248: SELECT id FROM "EQ" WHERE "fileName" = file_name_to_check
existing_eq(file_name_to_check) ==
    \E i \in 1..Len(db.EQ) : db.EQ[i].fileName = file_name_to_check

\* lines 243-252: a document whose fileName has an EQ row is skipped
CheckExisting ==
    /\ pc = "check"
    /\ \E outcome \in Outcomes({"select fails"}) :
        /\ faults' = IF outcome = "ok" THEN faults ELSE faults + 1
        /\ IF outcome # "ok"
           THEN /\ import_log' = Append(import_log, <<"raise", "select">>)
                /\ ReturnImport(FALSE)
           ELSE IF existing_eq(clean_value(data.fileName))
                THEN /\ import_log' = Append(import_log, <<"skip">>)
                     /\ ReturnImport(TRUE)
                ELSE /\ import_log' = import_log
                     /\ pc' = "upload_original"
                     /\ UNCHANGED import_results
    /\ UNCHANGED <<json_calls, call_index, db, s3_bucket, frame, uuid_counter>>
    /\ UNCHANGED varsFile
    /\ UNCHANGED varsBatch

\* lines 254-260: index.xlsx is uploaded when it exists; when it does not,
\* original_file_id is never assigned
UploadOriginal ==
    /\ pc = "upload_original"
    /\ \E outcome \in (IF json_dir.has_xlsx
                       THEN Outcomes({"upload fails", "file insert fails"}) ELSE {"ok"}) :
        LET r == upload_file_to_s3(json_dir.has_xlsx, <<"index.xlsx">>, outcome)
        IN /\ faults' = IF outcome = "ok" THEN faults ELSE faults + 1
           /\ db' = [db EXCEPT !.File = r.File]
           /\ s3_bucket' = r.s3
           /\ uuid_counter' = r.uuid
           /\ import_log' = import_log \o r.log
           /\ frame' = IF json_dir.has_xlsx
                       THEN [frame EXCEPT !.original_file_id = r.file_id]
                       ELSE frame
    /\ pc' = "insert_eq"
    /\ UNCHANGED <<json_calls, call_index, import_results>>
    /\ UNCHANGED varsFile
    /\ UNCHANGED varsBatch

\* lines 263-318: the EQ row is inserted and committed
InsertEQ ==
    /\ pc = "insert_eq"
    /\ uuid_counter' = uuid_counter + 1
    /\ IF frame.original_file_id = Unbound
       THEN /\ import_log' = Append(import_log, <<"raise", "original_file_id">>)
            /\ ReturnImport(FALSE)
            /\ UNCHANGED <<db, frame, faults>>
       ELSE \E outcome \in Outcomes({"insert fails"}) :
                /\ faults' = IF outcome = "ok" THEN faults ELSE faults + 1
                /\ IF outcome = "ok"
                   THEN /\ db' = [db EXCEPT !.EQ =
                                      Append(@, [id |-> uuid_counter',
                                                 fileName |-> clean_value(data.fileName),
                                                 originalFileId |-> frame.original_file_id])]
                        /\ frame' = [frame EXCEPT !.eq_id = uuid_counter', !.q = 1]
                        /\ import_log' = Append(import_log, <<"insert", "EQ">>)
                        /\ pc' = "insert_question"
                        /\ UNCHANGED import_results
                   ELSE /\ import_log' = Append(import_log, <<"raise", "EQ">>)
                        /\ ReturnImport(FALSE)
                        /\ UNCHANGED <<db, frame>>
    /\ UNCHANGED <<json_calls, call_index, s3_bucket>>
    /\ UNCHANGED varsFile
    /\ UNCHANGED varsBatch

\* the first image object of the question, when images/ exists (line 343)
FirstPlace(question_data) ==
    IF json_dir.has_images_dir THEN NextPlace(question_data, <<0, 0>>) ELSE NoneV

\* lines 320-340 and 359-360: the next Question row is inserted and committed, or
\* the loop is over and process_json_file returns True
InsertQuestion ==
    /\ pc = "insert_question"
    /\ IF frame.q > Len(data.questions)
       THEN /\ import_log' = Append(import_log, <<"return">>)
            /\ ReturnImport(TRUE)
            /\ UNCHANGED <<db, frame, uuid_counter, faults>>
       ELSE /\ uuid_counter' = uuid_counter + 1
            /\ \E outcome \in Outcomes({"insert fails"}) :
                /\ faults' = IF outcome = "ok" THEN faults ELSE faults + 1
                /\ IF outcome = "ok"
                   THEN LET question_data == data.questions[frame.q]
                            first == FirstPlace(question_data)
                        IN /\ db' = [db EXCEPT !.Question =
                                         Append(@, [id |-> uuid_counter',
                                                    no |-> clean_value(question_data.no),
                                                    EQId |-> frame.eq_id])]
                           /\ import_log' =
                                  Append(import_log, <<"insert", "Question", frame.q>>)
                           /\ frame' = IF first = NoneV
                                       THEN [frame EXCEPT !.question_id = uuid_counter',
                                                          !.q = @ + 1]
                                       ELSE [frame EXCEPT !.question_id = uuid_counter',
                                                          !.place = first]
                           /\ pc' = IF first = NoneV THEN "insert_question" ELSE "images"
                           /\ UNCHANGED import_results
                   ELSE /\ import_log' = Append(import_log, <<"raise", "Question">>)
                        /\ ReturnImport(FALSE)
                        /\ UNCHANGED <<db, frame>>
    /\ UNCHANGED <<json_calls, call_index, s3_bucket>>
    /\ UNCHANGED varsFile
    /\ UNCHANGED varsBatch

\* lines 343-357 and create_image_question_relations_from_objects: the image object
\* at frame.place is uploaded and related to the question, or skipped
RelateImage ==
    /\ pc = "images"
    /\ LET question_data == data.questions[frame.q]
           role == frame.place[1][1]
           image_obj == RoleImages(question_data, role)[frame.place[1][2]]
           named == image_obj.name # NoneV /\ image_obj.name[1] # <<>>
           exists == named /\ image_obj.name[1] \in json_dir.image_files
           next == NextPlace(question_data, frame.place[1])
       IN /\ \E outcome \in (IF exists
                             THEN Outcomes({"upload fails", "file insert fails",
                                            "relation fails"})
                             ELSE {"ok"}) :
               LET r == IF named
                        THEN upload_file_to_s3(exists, image_obj.name[1], outcome)
                        ELSE upload_file_to_s3(FALSE, <<>>, outcome)
                   related == r.file_id # NoneV /\ outcome # "relation fails"
               IN /\ faults' = IF outcome = "ok" THEN faults ELSE faults + 1
                  /\ db' = [db EXCEPT
                               !.File = r.File,
                               !.Relation =
                                   IF related
                                   THEN Append(@, [table |-> Roles[role],
                                                   A |-> r.file_id[1],
                                                   B |-> frame.question_id])
                                   ELSE @]
                  /\ s3_bucket' = r.s3
                  /\ uuid_counter' = r.uuid
                  /\ import_log' =
                         import_log \o r.log
                         \o (IF related
                             THEN << <<"insert", "Relation", image_obj.name[1]>> >>
                             ELSE <<>>)
          /\ frame' = IF next = NoneV
                      THEN [frame EXCEPT !.place = NoneV, !.q = @ + 1]
                      ELSE [frame EXCEPT !.place = next]
          /\ pc' = IF next = NoneV THEN "insert_question" ELSE "images"
    /\ UNCHANGED <<json_calls, call_index, import_results>>
    /\ UNCHANGED varsFile
    /\ UNCHANGED varsBatch

NextImport ==
    \/ CallProcessJsonFile \/ CheckExisting \/ UploadOriginal \/ InsertEQ
    \/ InsertQuestion \/ RelateImage

SpecImport == InitImport /\ [][NextImport]_vars

(***************************************************************************)
(* Properties of process_json_file.                                        *)
(***************************************************************************)
\* the EQ rows of the store that carry file name f
EQRowsNamed(f) == {i \in 1..Len(db.EQ) : db.EQ[i].fileName = f}

\* the file name call i of process_json_file looks up and stores
StoredFileName(i) == clean_value(json_calls[i].data.fileName)

\* C15: the import is idempotent per fileName.  A call of process_json_file on a
\* document whose fileName already has an EQ row returns at the check, leaving
\* every table and the object storage as they were; no fileName ever has two EQ
\* rows; and once a call has reported success, the fileName of its document has
\* exactly one EQ row however often the document is imported again.
C15_ImportIdempotent ==
    /\ [](\A i \in 1..Len(import_results) :
              /\ Cardinality(EQRowsNamed(StoredFileName(i))) <= 1
              /\ import_results[i] => Cardinality(EQRowsNamed(StoredFileName(i))) = 1)
    /\ [][(pc = "check" /\ EQRowsNamed(StoredFileName(call_index)) # {}) =>
              /\ db' = db /\ s3_bucket' = s3_bucket
              /\ pc' = "import"
              /\ faults' = faults => import_results' = Append(import_results, TRUE)]_vars

\* the same directory has been imported three times: one EQ row, the last call skipped
C15_Witness ==
    /\ pc = "import"
    /\ json_calls = <<DirA, DirA, DirA>>
    /\ import_results = <<TRUE, TRUE, TRUE>>
    /\ import_log = << <<"skip">> >>
    /\ Len(db.EQ) = 1 /\ Len(db.Question) = 2 /\ Len(db.File) = 3

\* the events of the running call that are uploads, and those that insert EQ or
\* Question rows
IsUpload(e) == e[1] = "upload"
IsRowInsert(e) == e[1] = "insert" /\ e[2] \in {"EQ", "Question"}

\* C16 as stated: in every call of process_json_file the original spreadsheet and
\* every image are uploaded before any EQ or Question row of the document is
\* inserted.
C16_UploadsBeforeRows ==
    \A i, j \in 1..Len(import_log) :
        (IsRowInsert(import_log[i]) /\ IsUpload(import_log[j])) => j < i

\* the places of the question's image objects whose file lies in images/
PresentPlaces(dir, question_data) ==
    {p \in ImagePlaces(question_data) :
        RoleImages(question_data, p[1])[p[2]].name[1] \in dir.image_files}

\* the names of the image objects of the document whose file is missing
MissingImages(dir) ==
    UNION {{RoleImages(dir.data.questions[q], p[1])[p[2]].name[1] :
                p \in ImagePlaces(dir.data.questions[q]) \ PresentPlaces(dir, dir.data.questions[q])} :
           q \in 1..Len(dir.data.questions)}

\* event e of the running call uploads the file called name, or inserts its File
\* row or its relation row
IsAbout(e, name) ==
    \/ e[1] = "upload" /\ e[2] = name
    \/ e[1] = "insert" /\ e[2] \in {"File", "Relation"} /\ e[3] = name

\* C17: an image file missing from images/ is only skipped.  The running call
\* uploads nothing and inserts no File or relation row for it; and when nothing
\* else goes wrong (index.xlsx is there, no store operation fails) the first call
\* inserts the EQ row and every Question row, uploads and relates every image that
\* is there, and reports success.
C17_MissingImageSkipped ==
    /\ call_index >= 1 =>
           \A i \in 1..Len(import_log) : \A name \in MissingImages(json_dir) :
               ~IsAbout(import_log[i], name)
    /\ call_index = 1 =>
           \A i \in 1..Len(db.File) : db.File[i].name \notin MissingImages(json_dir)
    /\ (call_index = 1 /\ pc = "import" /\ faults = 0
        /\ json_dir.has_xlsx /\ json_dir.has_images_dir) =>
           /\ import_results = <<TRUE>>
           /\ Len(db.EQ) = 1
           /\ Len(db.Question) = Len(data.questions)
           /\ \A q \in 1..Len(data.questions) :
                  /\ db.Question[q].EQId = db.EQ[1].id
                  /\ \A p \in PresentPlaces(json_dir, data.questions[q]) :
                         \E k \in 1..Len(db.Relation), f \in 1..Len(db.File) :
                             /\ db.Relation[k].table = Roles[p[1]]
                             /\ db.Relation[k].B = db.Question[q].id
                             /\ db.Relation[k].A = db.File[f].id
                             /\ db.File[f].name =
                                    RoleImages(data.questions[q], p[1])[p[2]].name[1]
           /\ Len(db.Relation) =
                  Cardinality(UNION {{<<q, p>> : p \in PresentPlaces(json_dir, data.questions[q])} :
                                         q \in 1..Len(data.questions)})

\* the document with the missing image_2.png has been imported: two images related
C17_Witness ==
    /\ pc = "import" /\ call_index = 1 /\ json_dir = DirA
    /\ MissingImages(json_dir) = {ImageFilename(2)}
    /\ import_results = <<TRUE>>
    /\ Len(db.Question) = 2 /\ Len(db.Relation) = 2
    /\ {db.File[i].name : i \in 1..Len(db.File)} =
           {<<"index.xlsx">>, ImageFilename(1), ImageFilename(3)}

\* C18: the content rules come first and in order.  A sample with both 'CEA' and
\* 'Customer Engineering Approval' in a workbook whose first sheet is named CEA
\* classifies as CEA; otherwise a sample with 'Engineering Questionnaire' or 'EQ'
\* classifies as starteam when it also has both 'STG Proposal' and 'Customer
\* Decision', and as EQ when it does not, whatever the sheet name and the column
\* count are.
C18_ContentRulesInOrder ==
    (template_type # "unset" /\ workbook # <<>>) =>
        LET approval == /\ HasMarker(MarkerCEA) /\ HasMarker(MarkerApproval)
                        /\ workbook[1].name = "CEA"
            questionnaire == HasMarker(MarkerQuestionnaire) \/ HasMarker(MarkerEQ)
        IN /\ approval => template_type = "CEA"
           /\ (~approval /\ questionnaire) =>
                  template_type = IF HasMarker(MarkerProposal) /\ HasMarker(MarkerDecision)
                                  THEN "starteam" ELSE "EQ"

\* a sheet named CEA with the approval markers and the questionnaire marker is CEA
C18_Witness ==
    /\ pc = "returned" /\ template_type = "CEA"
    /\ workbook[1].name = "CEA" /\ max_column(workbook[1]) = 10
    /\ HasMarker(MarkerCEA) /\ HasMarker(MarkerApproval) /\ HasMarker(MarkerEQ)
    /\ cell(workbook[1], 1, 3) = StrCell(MarkerEQ)

\* C19 as stated: the text of every non-empty cell of the first 20 rows and first
\* 15 columns of the first sheet (bounded by the sheet's size) is part of the
\* sample string.
C19_SampleWindow ==
    (template_type # "unset" /\ workbook # <<>>) =>
        \A r \in 1..Min(20, max_row(workbook[1])) :
            \A c \in 1..Min(15, max_column(workbook[1])) :
                Truthy(cell(workbook[1], r, c)) =>
                    Contains(SampleText(workbook[1]), StrOf(cell(workbook[1], r, c)))

\* the rows of the scan that qualify as question rows
QualifyingRows(sheet, ttype) ==
    {r \in (StartRow(ttype) + 1)..max_row(sheet) : IsQuestionRow(cell(sheet, r, NoCol))}

\* C21: extract_questions returns one Question for every qualifying row from
\* start_row + 1 to the sheet's last row, none for any other row, in ascending row
\* order: a row that is no question row is skipped and does not end the scan.
C21_EveryQualifyingRowOnce ==
    QuestionsReturned =>
        LET qs == questions[1]
            rows == QualifyingRows(workbook[1], template_type)
        IN /\ Len(qs) = Cardinality(rows)
           /\ {qs[i].row : i \in 1..Len(qs)} = rows
           /\ \A i, j \in 1..Len(qs) : i < j => qs[i].row < qs[j].row
           /\ \A i \in 1..Len(qs) :
                  qs[i].no = StrOf(cell(workbook[1], qs[i].row, NoCol))

\* rows 10 and 12 are question rows, row 11 between them is blank: two Questions
C21_Witness ==
    /\ QuestionsReturned /\ template_type = "EQ"
    /\ cell(workbook[1], 10, 1) = IntCell(1)
    /\ cell(workbook[1], 11, 1) = NoneCell
    /\ cell(workbook[1], 12, 1) = IntCell(1)
    /\ Len(questions[1]) = 2
    /\ questions[1][1].row = 10 /\ questions[1][2].row = 12

\* C22 as stated: the row after the start row is a header; a digit value in the
\* number column of row start_row + 1 never produces a Question.
C22_AsStated ==
    QuestionsReturned =>
        \A i \in 1..Len(questions[1]) : questions[1][i].row # StartRow(template_type) + 1

\* C22: the start row (10 for the extended variant, 9 otherwise) is the header and
\* is skipped, as is every row above it: a digit value in the number column of row
\* start_row never produces a Question, and row start_row + 1 is the first row that
\* does when its number cell qualifies.
C22_StartRowIsHeader ==
    QuestionsReturned =>
        LET start_row == IF template_type = "starteam" THEN 10 ELSE 9
            first == cell(workbook[1], start_row + 1, 1)
        IN /\ \A i \in 1..Len(questions[1]) : questions[1][i].row > start_row
           /\ (start_row + 1 <= max_row(workbook[1])
               /\ (first.t = "int" \/ (first.t = "str" /\ IsDigit(first.s)))) =>
                  /\ Len(questions[1]) >= 1
                  /\ questions[1][1].row = start_row + 1

\* the extended variant: the number in its header row 10 gives no Question, the one
\* in row 11 gives the first
C22_Witness ==
    /\ QuestionsReturned /\ template_type = "starteam"
    /\ cell(workbook[1], 10, 1) = IntCell(1)
    /\ cell(workbook[1], 11, 1) = IntCell(1)
    /\ cell(workbook[1], 12, 1) = NoneCell
    /\ Len(questions[1]) = 1 /\ questions[1][1].row = 11

\* C23: when the top-date cell (row 3, column 5) of the sheet holds a date value,
\* createdAt of the Document and of every one of its Questions is that date; when
\* it holds no date value (it is empty, or holds text) each of them is the current
\* time.
C23_CreatedAtFromTopDate ==
    (eq_data # NoneV /\ workbook # <<>>) =>
        LET top == cell(workbook[1], 3, 5)
            expected == IF top.t = "date" THEN top.s ELSE Now
        IN /\ eq_data.createdAt = expected
           /\ \A i \in 1..Len(eq_data.questions) :
                  eq_data.questions[i].createdAt = expected

\* the dated questionnaire has been mapped, after the one with text for a date
C23_Witness ==
    /\ excel_files = <<TextDateFile, DatedFile>>
    /\ file_index = 2 /\ pc = "validate"
    /\ eq_data.createdAt = <<"2024-03-15T00:00:00">>
    /\ Len(eq_data.questions) = 2
    /\ eq_data.questions[2].createdAt = <<"2024-03-15T00:00:00">>

\* C24 as stated: for the plain questionnaire and the extended variant the
\* signature-block scan reads only rows between 1 and the sheet's last row plus
\* one, whatever the height of the sheet, so extract_metadata does not fault and
\* the file does not fail at that step.
C24_ScanStaysInSheet ==
    (template_type \in {"EQ", "starteam"} /\ metadata # NoneV) =>
        /\ FirstScanRow(workbook[1], template_type) <= LastScanRow(workbook[1], template_type)
               => FirstScanRow(workbook[1], template_type) >= 1
        /\ ~metadata[1].raised
        /\ \A i \in 1..Len(run_log) : run_log[i] # <<"raise", "metadata">>

\* the file names found in the image lists of the Questions
AttachedImages ==
    LET qs == questions[1]
        Names(list) == {list[i] : i \in 1..Len(list)}
    IN UNION {Names(qs[k].descriptionImages) \cup Names(qs[k].suggestionImages)
              \cup Names(qs[k].customerResponseImages) : k \in 1..Len(qs)}

\* C25 as stated: every image found in a Question's image list is the image of a
\* drawing anchored on the first sheet; a drawing of another sheet is attached to
\* no Question.
C25_OnlyFirstSheetImages ==
    QuestionsReturned =>
        \A f \in AttachedImages :
            \E p \in AnchoredDrawings(workbook) :
                p[1] = 1 /\ NameGiven(workbook, p) = f

\* C26: over all Questions of the Document and their three image lists, every
\* image file name occurs at most once: no image is attached to two Questions, to
\* two role lists, or twice to one list.
C26_ImageAttachedAtMostOnce ==
    QuestionsReturned =>
        \A f \in AttachedImages : Cardinality(Attachments(f)) = 1

\* two images attached: one to the description of the first Question, one to the
\* suggestion of the second
C26_Witness ==
    /\ pc = "returned" /\ QuestionsReturned
    /\ Len(questions[1]) = 2
    /\ questions[1][1].descriptionImages = <<ImageFilename(1)>>
    /\ questions[1][2].suggestionImages = <<ImageFilename(2)>>
    /\ AttachedImages = {ImageFilename(1), ImageFilename(2)}

\* C27: every Document that process_excel_file maps has a non-empty fileName and a
\* non-empty no on every Question, so when validation of a recognised file fails,
\* the one violated rule is the customerName rule.
C27_OnlyCustomerNameCanFail ==
    /\ eq_data # NoneV =>
           /\ eq_data.fileName # <<>>
           /\ \A i \in 1..Len(eq_data.questions) : eq_data.questions[i].no # <<>>
    /\ (validation # NoneV /\ ~validation[1].is_valid) =>
           /\ eq_data.customerName = <<>>
           /\ validation[1].errors = <<ErrCustomerName>>

\* the questionnaire whose customer cell holds 0 has failed validation; its three
\* Questions are numbered 0, False and 07
C27_Witness ==
    /\ pc = "next" /\ file_index > 0 /\ file = OddNumbersFile
    /\ run_log # <<>> /\ validation # NoneV /\ eq_data # NoneV
    /\ run_log[Len(run_log)] = <<"validate", "fail">>
    /\ validation[1].errors = <<ErrCustomerName>>
    /\ Len(eq_data.questions) = 3
    /\ eq_data.questions[1].no = <<"0">>
    /\ eq_data.questions[2].no = <<"F", "a", "l", "s", "e">>
    /\ eq_data.questions[3].no = <<"0", "7">>

\* where the run on input file f writes its index.json
IndexJsonOf(f) == OutputDirName(f.name) \o <<"/", "index.json">>

\* C28 as stated: two distinct recognised files of one batch never write to the
\* same output sub-directory; the index.json written for a file that was processed
\* is still that file's Document whatever files the batch processes after it.
C28_NoSharedOutputDir ==
    /\ \A i, j \in 1..Len(results) :
           (i # j /\ results[i] = [success |-> TRUE, is_outlier |-> FALSE]
                  /\ results[j] = [success |-> TRUE, is_outlier |-> FALSE]) =>
               OutputDirName(excel_files[i].name) # OutputDirName(excel_files[j].name)
    /\ \A i \in 1..Len(results) :
           results[i] = [success |-> TRUE, is_outlier |-> FALSE] =>
               /\ IndexJsonOf(excel_files[i]) \in DOMAIN output_fs
               /\ output_fs[IndexJsonOf(excel_files[i])] = Stored("json", excel_files[i].bytes)

\* C29 as stated: when the first import of a document reports failure, the store
\* holds no EQ row with the document's fileName.
C29_FailureLeavesNoEQRow ==
    (pc = "import" /\ call_index = 1 /\ import_results = <<FALSE>>) =>
        EQRowsNamed(StoredFileName(1)) = {}

\* C30 as stated: when index.xlsx is absent and no store operation fails,
\* process_json_file inserts the EQ row without an original-file reference and
\* every Question row, and reports success.
C30_MissingXlsxOnlyWarns ==
    (pc = "import" /\ call_index = 1 /\ faults = 0 /\ ~json_dir.has_xlsx) =>
        /\ import_results = <<TRUE>>
        /\ Len(db.EQ) = 1 /\ db.EQ[1].originalFileId = NoneV
        /\ Len(db.Question) = Len(data.questions)

====
